---- MODULE Spec2Model ----
(***************************************************************************)
(* Duplicate / similarity detection pipeline of the Authenzia backend:     *)
(* ImageProcessor (getImageHash, compareImages, hammingDistance),          *)
(* AIService (compareImagesWithAI, checkForDuplicates, detectDuplicates)   *)
(* and the POST /upload route that drives them.                            *)
(*                                                                         *)
(* Strings are modelled as sequences of one-character strings.  Floating   *)
(* point fractions are modelled as exact rationals <<num, den>>, den > 0.  *)
(***************************************************************************)
EXTENDS Integers, Sequences, FiniteSets, Bags, TLC

VARIABLES cmp, hc, dd, phash, assets, reqs, last, fq,
          item, payments, procs, now, resp, seller,
          auctions, auctionBids, escrowBalances, nftOwner, timestamp, events,
          supportedTokens, holdings,
          tokenIdCounter, tokenOwners, contentHashes, usedHashes, usedVouchers,
          ipfs

vars == <<cmp, hc, dd, phash, assets, reqs, last, fq,
          item, payments, procs, now, resp, seller,
          auctions, auctionBids, escrowBalances, nftOwner, timestamp, events,
          supportedTokens, holdings,
          tokenIdCounter, tokenOwners, contentHashes, usedHashes, usedVouchers,
          ipfs>>

\* the payment routes: the asset on sale, the Payment collection, the
\* /process request of every client, the clock, the last response and the
\* statistics of the seller
payVars == <<item, payments, procs, now, resp, seller>>

\* AuthenziaMarketplace: its storage, the owner of the NFT, block.timestamp,
\* the events emitted so far and the marketplace's balance of each ERC-20
\* payment token
mktVars == <<auctions, auctionBids, escrowBalances, nftOwner, timestamp, events,
          supportedTokens, holdings>>

\* AuthenziaNFT: _tokenIdCounter, the owner of every token id (ERC721
\* _owners), contentHashes, usedHashes and usedVouchers
nftVars == <<tokenIdCounter, tokenOwners, contentHashes, usedHashes, usedVouchers>>

\* the state of the specifications that follow the upload route
restVars == <<fq, payVars, mktVars, nftVars, ipfs>>

\* the Asset collection, the POST /upload requests in progress and the
\* request that was answered last
uploadVars == <<assets, reqs, last>>

(***************************************************************************)
(* Bounds of the model.                                                    *)
(***************************************************************************)
\* images of the model: pixel i of image <<mul, q>> is (mul * i) % q
MaxMul == 4
\* hash strings of the comparator model have at most MaxHashLen characters
MaxHashLen == 11
\* candidate pools given to detectDuplicates have at most MaxPool entries
MaxPool == 2
\* auctions created in a behaviour
MaxAuctions == 2
\* block.timestamp runs from 0 to MaxClock
MaxClock == 3
\* token ids of the NFT contract are 0..MaxTokenId
MaxTokenId == 3
\* clients that send POST /:paymentId/process for one payment
MaxClients == 2
\* POST /upload requests of a behaviour
MaxRequests == 3
\* users are 1..MaxUsers
MaxUsers == 2
\* uploaded files have bytes 0..MaxBytes
MaxBytes == 2

MaxInFlight == 2
\* Asset collections given to the candidate queries have at most MaxColl
\* documents
MaxColl == 102
\* the Payment collection holds at most MaxPayments documents
MaxPayments == 1
\* the clock runs from 0 to MaxTime
MaxTime == 2

(***************************************************************************)
(* Rationals.                                                              *)
(***************************************************************************)
Max(a, b) == IF a > b THEN a ELSE b

RatGT(a, b) == a[1] * b[2] > b[1] * a[2]

RatGE(a, b) == a[1] * b[2] >= b[1] * a[2]

RatEq(a, b) == a[1] * b[2] = b[1] * a[2]

RatMax(a, b) == IF RatGT(b, a) THEN b ELSE a

(***************************************************************************)
(* Buffers and images.  A Buffer is identified by its bytes; bytes 0 are   *)
(* bytes that sharp cannot decode, bytes b > 0 decode to the 8x8 grayscale *)
(* grid GridOf(b): the 64 bytes that                                       *)
(* sharp(...).resize(8, 8).grayscale().raw() yields.  Pixel i of grid      *)
(* <<mul, q>> is (mul * i) % q.                                            *)
(***************************************************************************)
GridSide == 8

NumPixels == GridSide * GridSide

Moduli == <<2, 3, 7, 256>>

NumImages == (MaxMul + 1) * Len(Moduli)

GridOf(bytes) == <<(bytes - 1) % (MaxMul + 1), Moduli[((bytes - 1) \div (MaxMul + 1)) + 1]>>

Buffer(bytes) == [isBuffer |-> TRUE, bytes |-> bytes]

\* a value that is no Buffer, string or typed array (undefined, say)
NotABuffer == [isBuffer |-> FALSE, bytes |-> 0]

Decodable(buffer) == buffer.isBuffer /\ buffer.bytes # 0

\* data[i], i in 0..63, of the raw buffer of a grid
Pixel(img, i) == (img[1] * i) % img[2]

\* the adjacent-pixel comparisons of the grid: i is in the set iff
\* data[i] > data[i-1]
CmpBits(img) == {i \in 1..(NumPixels - 1) : Pixel(img, i) > Pixel(img, i - 1)}

(***************************************************************************)
(* Number.prototype.toString(16) of an int32 given by its 32 bits.         *)
(***************************************************************************)
HexDigits == <<"0", "1", "2", "3", "4", "5", "6", "7",
               "8", "9", "a", "b", "c", "d", "e", "f">>

Pow2(n) == IF n = 0 THEN 1 ELSE IF n = 1 THEN 2 ELSE IF n = 2 THEN 4 ELSE 8

\* nibble k (0 = least significant) of the 32-bit pattern bits
Nibble(bits, k) ==
  LET b(j) == IF (4 * k + j) \in bits THEN Pow2(j) ELSE 0
  IN  b(0) + b(1) + b(2) + b(3)

\* nibbles of the magnitude of a negative int32: two's complement negation
RECURSIVE NegNibbles(_, _, _)
NegNibbles(bits, k, carry) ==
  IF k = 8 THEN <<>>
  ELSE LET s == 15 - Nibble(bits, k) + carry
       IN  <<s % 16>> \o NegNibbles(bits, k + 1, s \div 16)

\* hex digits, most significant first, without leading zeros
RECURSIVE HexOfNibbles(_, _)
HexOfNibbles(nibs, k) ==
  IF k = 0 THEN <<>>
  ELSE IF nibs[k] = 0 /\ \A j \in k..8 : nibs[j] = 0
       THEN HexOfNibbles(nibs, k - 1)
       ELSE <<HexDigits[nibs[k] + 1]>> \o HexOfNibbles(nibs, k - 1)

Int32ToString16(bits) ==
  LET neg  == 31 \in bits
      nibs == IF neg THEN NegNibbles(bits, 0, 1)
              ELSE [k \in 1..8 |-> Nibble(bits, k - 1)]
      hex  == HexOfNibbles(nibs, 8)
  IN  IF hex = <<>> THEN <<"0">>
      ELSE IF neg THEN <<"-">> \o hex ELSE hex

(***************************************************************************)
(* Results of calls that can throw.                                        *)
(***************************************************************************)
Return(v) == [ok |-> TRUE, val |-> v]

Throw == [ok |-> FALSE]

(***************************************************************************)
(* ImageProcessor.getImageHash: hash |= (1 << (i - 1)) for every i with    *)
(* data[i] > data[i-1]; the shift count of << is taken modulo 32 and the   *)
(* result of |= is an int32.  Throws when sharp cannot decode the bytes.   *)
(***************************************************************************)
ShiftWidth == 32

HashBits(img) == {(i - 1) % ShiftWidth : i \in CmpBits(img)}

\* the hash of every decodable buffer of the model, computed once
ImageHashes ==
  [bytes \in 1..Max(NumImages, MaxBytes) |-> Int32ToString16(HashBits(GridOf(bytes)))]

getImageHash(imageBuffer) ==
  IF Decodable(imageBuffer) THEN Return(ImageHashes[imageBuffer.bytes]) ELSE Throw

(***************************************************************************)
(* ImageProcessor.hammingDistance: pads the shorter string with "0".       *)
(***************************************************************************)
padEnd(str, n) == [i \in 1..Max(n, Len(str)) |-> IF i <= Len(str) THEN str[i] ELSE "0"]

\* mutant: only the second string is padded, to the length of the first
hammingDistanceOneSided(str1, str2) ==
  Cardinality({i \in 1..Len(str1) : str1[i] # padEnd(str2, Len(str1))[i]})

hammingDistance(str1, str2) ==
  LET maxLength  == Max(Len(str1), Len(str2))
      paddedStr1 == padEnd(str1, maxLength)
      paddedStr2 == padEnd(str2, maxLength)
  IN  Cardinality({i \in 1..maxLength : paddedStr1[i] # paddedStr2[i]})

(***************************************************************************)
(* ImageProcessor.compareImages; compareHashes is its part from the two    *)
(* hash strings on.                                                        *)
(***************************************************************************)
maxDistance == 64

SimilarityThreshold == <<85, 100>>

\* mutant: the threshold applied as "distance <= 10"
compareHashesLoose(hash1, hash2) ==
  LET distance   == hammingDistance(hash1, hash2)
      similarity == <<maxDistance - distance, maxDistance>>
  IN  [hash1 |-> hash1, hash2 |-> hash2, distance |-> distance,
       similarity |-> similarity,
       isSimilar |-> distance <= 10]

compareHashes(hash1, hash2) ==
  LET distance   == hammingDistance(hash1, hash2)
      similarity == <<maxDistance - distance, maxDistance>>
  IN  [hash1 |-> hash1, hash2 |-> hash2, distance |-> distance,
       similarity |-> similarity,
       isSimilar |-> RatGT(similarity, SimilarityThreshold)]

compareImages(image1Buffer, image2Buffer) ==
  LET hash1 == getImageHash(image1Buffer)
      hash2 == getImageHash(image2Buffer)
  IN  IF hash1.ok /\ hash2.ok
      THEN Return(compareHashes(hash1.val, hash2.val))
      ELSE Throw

(***************************************************************************)
(* AIService.generateSHA256Hash: the 64 hex characters of the digest of    *)
(* the bytes; crypto's update() throws on a value that is no Buffer.       *)
(***************************************************************************)
DigestLen == 64

Digest(bytes) ==
  [i \in 1..DigestLen |-> HexDigits[(((bytes + 3) * (i + 1) + (bytes + 1) * i * i + (i \div 5)) % 16) + 1]]

\* the digest of every buffer of the model, computed once
Digests == [bytes \in 0..MaxBytes |-> Digest(bytes)]

generateSHA256Hash(buffer) ==
  IF buffer.isBuffer THEN Return(Digests[buffer.bytes]) ELSE Throw

(***************************************************************************)
(* AIService.generatePerceptualHash.  phash is the module-level binding of *)
(* the optional pHash library; libOut is what phash.hash() gives for the   *)
(* image (<<>> when it throws).                                            *)
(***************************************************************************)
generatePerceptualHash(imageBuffer, libOut) ==
  IF ~phash THEN generateSHA256Hash(imageBuffer)
  ELSE IF imageBuffer.isBuffer /\ libOut # <<>> THEN Return(libOut)
  ELSE generateSHA256Hash(imageBuffer)

(***************************************************************************)
(* AIService.hammingDistance: Infinity for strings of different lengths.   *)
(***************************************************************************)
Infinity == -1

NegInfinity == <<-1, 0>>

AIService_hammingDistance(hash1, hash2) ==
  IF Len(hash1) # Len(hash2) THEN Infinity
  ELSE Cardinality({i \in 1..Len(hash1) : hash1[i] # hash2[i]})

\* 1 - (distance / Math.max(perceptualHash.length, asset.perceptualHash.length))
perceptualSimilarity(hash1, hash2) ==
  LET distance == AIService_hammingDistance(hash1, hash2)
      longest  == Max(Len(hash1), Len(hash2))
  IN  IF distance = Infinity THEN NegInfinity
      ELSE <<longest - distance, longest>>

(***************************************************************************)
(* AIService.calculateConfidence and AIService.compareImagesWithAI.        *)
(* verdict is the outcome of the Groq call: "affirm" and "dissent" are     *)
(* the parsed {result: true|false}, "unavailable" a failed call or a       *)
(* reply that JSON.parse rejects.                                          *)
(***************************************************************************)
Verdicts == {"affirm", "dissent", "unavailable"}

RatMin(a, b) == IF RatGT(a, b) THEN b ELSE a

RatAdd(a, b) == <<a[1] * b[2] + b[1] * a[2], a[2] * b[2]>>

RatMul(a, b) == <<a[1] * b[1], a[2] * b[2]>>

calculateConfidence(aiResult, localComparison) ==
  LET ai == IF aiResult.present
            THEN (IF aiResult.result THEN <<6, 10>> ELSE <<4, 10>>)
            ELSE <<0, 1>>
  IN  RatMin(RatAdd(ai, RatMul(localComparison.similarity, <<4, 10>>)), <<1, 1>>)

compareImagesWithAI(image1Buffer, image2Buffer, verdict) ==
  LET local == compareImages(image1Buffer, image2Buffer)
  IN  IF ~local.ok THEN Throw
      ELSE IF verdict = "unavailable"
      THEN Return([aiResult |-> [present |-> FALSE],
                   localComparison |-> local.val,
                   combinedResult |->
                     [isDuplicate |-> local.val.isSimilar,
                      confidence |-> local.val.similarity,
                      similarity |-> local.val.similarity]])
      ELSE LET parsedResponse == [present |-> TRUE, result |-> (verdict = "affirm")]
           IN  Return([aiResult |-> parsedResponse,
                       localComparison |-> local.val,
                       combinedResult |->
                         [isDuplicate |-> parsedResponse.result \/ local.val.isSimilar,
                          confidence |-> calculateConfidence(parsedResponse, local.val),
                          similarity |-> local.val.similarity]])

\* the truth value of obj[name] in JavaScript, for a Boolean property:
\* a property the object does not have reads as undefined, which is falsy
Truthy(obj, name) == IF name \in DOMAIN obj THEN obj[name] ELSE FALSE

(***************************************************************************)
(* AIService.detectDuplicates.  A candidate is a record                    *)
(*   [_id, hash (originalFile.hash), perceptualHash, path, file]           *)
(* where an absent string is <<>>, path is "none" (no originalFile.path),  *)
(* "missing" (readFile fails) or "ok", and file is the bytes read.         *)
(* The result is [decision, aiCalls]: the value returned (or threw) and    *)
(* the number of Groq calls made.                                          *)
(***************************************************************************)
NoMethods == [sha256 |-> FALSE, perceptual |-> FALSE, ai |-> FALSE]

\* the object of the catch block
FailedDecision ==
  [threw |-> FALSE, isDuplicate |-> FALSE, confidence |-> <<0, 1>>, matches |-> <<>>,
   error |-> TRUE, methods |-> NoMethods]

RECURSIVE FilterSeq(_, _)
FilterSeq(seq, keep) ==
  IF seq = <<>> THEN <<>>
  ELSE (IF Head(seq)._id \in keep THEN <<Head(seq)>> ELSE <<>>) \o FilterSeq(Tail(seq), keep)

\* Method 1: SHA-256 exact match
exactMatches(existingAssets, sha256Hash) ==
  FilterSeq(existingAssets,
            {existingAssets[i]._id : i \in {j \in 1..Len(existingAssets) :
                                            existingAssets[j].hash = sha256Hash}})

exactDecision(matched) ==
  [threw |-> FALSE, isDuplicate |-> TRUE, confidence |-> <<1, 1>>,
   matches |-> [i \in 1..Len(matched) |->
                  [assetId |-> matched[i]._id, method |-> "sha256",
                   confidence |-> <<1, 1>>, aiConfirmed |-> FALSE]],
   error |-> FALSE,
   methods |-> [sha256 |-> TRUE, perceptual |-> FALSE, ai |-> FALSE]]

\* Method 2: perceptual hashing, skipped when phash is not bound
perceptualMatches(imageBuffer, existingAssets, libOut) ==
  IF ~phash THEN <<>>
  ELSE LET perceptualHash == generatePerceptualHash(imageBuffer, libOut).val
           similar == FilterSeq(existingAssets,
             {existingAssets[i]._id : i \in {j \in 1..Len(existingAssets) :
                /\ existingAssets[j].perceptualHash # <<>>
                /\ RatGT(perceptualSimilarity(perceptualHash,
                                              existingAssets[j].perceptualHash),
                         SimilarityThreshold)}})
       IN  [i \in 1..Len(similar) |->
              [assetId |-> similar[i]._id, method |-> "perceptual",
               confidence |-> perceptualSimilarity(perceptualHash,
                                                   similar[i].perceptualHash),
               aiConfirmed |-> FALSE]]

RECURSIVE MaxConfidence(_)
MaxConfidence(matches) ==
  IF matches = <<>> THEN <<0, 1>>
  ELSE IF Len(matches) = 1 THEN matches[1].confidence
  ELSE RatMax(matches[1].confidence, MaxConfidence(Tail(matches)))

perceptualDecision(matches) ==
  IF Len(matches) > 0
  THEN [threw |-> FALSE, isDuplicate |-> TRUE, confidence |-> MaxConfidence(matches),
        matches |-> matches, error |-> FALSE,
        methods |-> [sha256 |-> FALSE, perceptual |-> TRUE, ai |-> FALSE]]
  ELSE [threw |-> FALSE, isDuplicate |-> FALSE, confidence |-> <<0, 1>>,
        matches |-> <<>>, error |-> FALSE, methods |-> NoMethods]

\* matches.reduce((prev, current) => prev.confidence > current.confidence ? prev : current):
\* the index of the match it returns
RECURSIVE topMatchIndex(_, _, _)
topMatchIndex(matches, prev, i) ==
  IF i > Len(matches) THEN prev
  ELSE topMatchIndex(matches,
                     IF RatGT(matches[prev].confidence, matches[i].confidence)
                     THEN prev ELSE i,
                     i + 1)

\* mutant: a dissenting or unavailable judge overrides the perceptual signal
aiStageOverrides(results, imageBuffer, existingAssets, verdict) ==
  IF Len(results.matches) = 0 THEN [decision |-> results, aiCalls |-> 0]
  ELSE LET top   == topMatchIndex(results.matches, 1, 2)
           found == {i \in 1..Len(existingAssets) :
                       existingAssets[i]._id = results.matches[top].assetId}
           matchedAsset == existingAssets[CHOOSE i \in found : \A j \in found : i <= j]
       IN  IF found = {} \/ matchedAsset.path # "ok"
           THEN [decision |-> results, aiCalls |-> 0]
           ELSE [decision |-> [results EXCEPT !.confidence = <<0, 1>>,
                                              !.isDuplicate = FALSE],
                 aiCalls |-> 1]

\* mutant: the judge's verdict is read where compareImagesWithAI puts it
\* (aiResult.result), so an affirming judge raises the confidence to 0.9
aiStageConfirms(results, imageBuffer, existingAssets, verdict) ==
  IF Len(results.matches) = 0 THEN [decision |-> results, aiCalls |-> 0]
  ELSE LET top   == topMatchIndex(results.matches, 1, 2)
           found == {i \in 1..Len(existingAssets) :
                       existingAssets[i]._id = results.matches[top].assetId}
           matchedAsset == existingAssets[CHOOSE i \in found : \A j \in found : i <= j]
       IN  IF found = {} \/ matchedAsset.path # "ok"
           THEN [decision |-> results, aiCalls |-> 0]
           ELSE LET aiComparison ==
                      compareImagesWithAI(imageBuffer, Buffer(matchedAsset.file), verdict)
                IN  IF aiComparison.ok /\ aiComparison.val.aiResult.present
                       /\ aiComparison.val.aiResult.result
                    THEN [decision |->
                            [results EXCEPT
                               !.methods.ai = TRUE,
                               !.confidence = RatMax(results.confidence, <<9, 10>>),
                               !.matches[top].aiConfirmed = TRUE],
                          aiCalls |-> 1]
                    ELSE [decision |-> results, aiCalls |-> 1]

\* Method 3: AI-based comparison of the top match
aiStage(results, imageBuffer, existingAssets, verdict) ==
  IF Len(results.matches) = 0 THEN [decision |-> results, aiCalls |-> 0]
  ELSE LET top   == topMatchIndex(results.matches, 1, 2)
           found == {i \in 1..Len(existingAssets) :
                       existingAssets[i]._id = results.matches[top].assetId}
           matchedAsset == existingAssets[CHOOSE i \in found : \A j \in found : i <= j]
       IN  IF found = {} \/ matchedAsset.path # "ok"
           THEN [decision |-> results, aiCalls |-> 0]
           ELSE LET aiComparison ==
                      compareImagesWithAI(imageBuffer, Buffer(matchedAsset.file), verdict)
                IN  IF aiComparison.ok /\ Truthy(aiComparison.val, "result")
                    THEN [decision |->
                            [results EXCEPT
                               !.methods.ai = TRUE,
                               !.confidence = RatMax(results.confidence, <<9, 10>>),
                               !.matches[top].aiConfirmed = TRUE],
                          aiCalls |-> 1]
                    ELSE [decision |-> results, aiCalls |-> 1]

\* mutant: the exact match does not return, the AI stage runs on it
detectDuplicatesNoReturn(imageBuffer, existingAssets, libOut, verdict) ==
  LET sha256Hash == generateSHA256Hash(imageBuffer)
  IN  IF ~sha256Hash.ok THEN [decision |-> FailedDecision, aiCalls |-> 0]
      ELSE LET matched == exactMatches(existingAssets, sha256Hash.val)
           IN  IF Len(matched) > 0
               THEN aiStage(exactDecision(matched), imageBuffer, existingAssets, verdict)
               ELSE aiStage(perceptualDecision(
                              perceptualMatches(imageBuffer, existingAssets, libOut)),
                            imageBuffer, existingAssets, verdict)

\* mutant: no catch block around the stages, a failed digest propagates
detectDuplicatesThrows(imageBuffer, existingAssets, libOut, verdict) ==
  LET sha256Hash == generateSHA256Hash(imageBuffer)
  IN  IF ~sha256Hash.ok
      THEN [decision |-> [FailedDecision EXCEPT !.threw = TRUE], aiCalls |-> 0]
      ELSE LET matched == exactMatches(existingAssets, sha256Hash.val)
           IN  IF Len(matched) > 0
               THEN [decision |-> exactDecision(matched), aiCalls |-> 0]
               ELSE aiStage(perceptualDecision(
                              perceptualMatches(imageBuffer, existingAssets, libOut)),
                            imageBuffer, existingAssets, verdict)

detectDuplicates(imageBuffer, existingAssets, libOut, verdict) ==
  LET sha256Hash == generateSHA256Hash(imageBuffer)
  IN  IF ~sha256Hash.ok THEN [decision |-> FailedDecision, aiCalls |-> 0]
      ELSE LET matched == exactMatches(existingAssets, sha256Hash.val)
           IN  IF Len(matched) > 0
               THEN [decision |-> exactDecision(matched), aiCalls |-> 0]
               ELSE aiStage(perceptualDecision(
                              perceptualMatches(imageBuffer, existingAssets, libOut)),
                            imageBuffer, existingAssets, verdict)

(***************************************************************************)
(* Specification SpecImages: compareImages applied to every pair of        *)
(* buffers of the model.                                                   *)
(***************************************************************************)
NoCall == [phase |-> "idle"]

\* a request that has not arrived
IdleRequest == [pc |-> "idle"]

\* no call of the specifications that follow the upload route
NoPayments ==
  /\ item = NoCall
  /\ payments = <<>>
  /\ procs = <<>>
  /\ now = 0
  /\ resp = NoCall
  /\ seller = NoCall

\* the marketplace is not deployed
NoMarket ==
  /\ auctions = <<>>
  /\ auctionBids = <<>>
  /\ escrowBalances = <<>>
  /\ nftOwner = ""
  /\ timestamp = 0
  /\ events = EmptyBag
  /\ supportedTokens = {}
  /\ holdings = <<>>

\* the NFT contract is not deployed
NoNFT ==
  /\ tokenIdCounter = 0
  /\ tokenOwners = <<>>
  /\ contentHashes = <<>>
  /\ usedHashes = {}
  /\ usedVouchers = {}

NoRest == fq = NoCall /\ NoPayments /\ NoMarket /\ NoNFT /\ ipfs = NoCall

NoUploads ==
  /\ assets = <<>>
  /\ reqs = [r \in 1..MaxRequests |-> IdleRequest]
  /\ last = IdleRequest

InitImages ==
  /\ cmp \in [phase : {"call"}, image1 : 0..NumImages, image2 : 0..NumImages]
  /\ hc = NoCall
  /\ dd = NoCall
  /\ phash = FALSE
  /\ NoUploads
  /\ NoRest

CompareImages ==
  /\ cmp.phase = "call"
  /\ cmp' = [phase |-> "done", image1 |-> cmp.image1, image2 |-> cmp.image2,
             result |-> compareImages(Buffer(cmp.image1), Buffer(cmp.image2))]
  /\ UNCHANGED <<hc, dd, phash, uploadVars, restVars>>

NextImages == CompareImages

SpecImages == InitImages /\ [][NextImages]_vars

(***************************************************************************)
(* Specification SpecHashes: the comparison of compareImages (result) and  *)
(* the one of detectDuplicates (ai) applied to pairs of hash strings       *)
(* c^k 0^(n-k), 0 <= k <= n <= MaxHashLen.                                 *)
(***************************************************************************)
HashChars == {"a", "f"}

HashString(c, k, n) == [i \in 1..n |-> IF i <= k THEN c ELSE "0"]

HashStrings ==
  {HashString(c, k, n) : c \in HashChars, k \in 0..MaxHashLen, n \in 1..MaxHashLen}

InitHashes ==
  /\ hc \in [phase : {"call"}, hash1 : HashStrings, hash2 : HashStrings]
  /\ cmp = NoCall
  /\ dd = NoCall
  /\ phash = FALSE
  /\ NoUploads
  /\ NoRest

CompareHashes ==
  /\ hc.phase = "call"
  /\ hc' = [phase |-> "done", hash1 |-> hc.hash1, hash2 |-> hc.hash2,
            result |-> compareHashes(hc.hash1, hc.hash2),
            ai |-> [distance |-> AIService_hammingDistance(hc.hash1, hc.hash2),
                    similarity |-> perceptualSimilarity(hc.hash1, hc.hash2)]]
  /\ UNCHANGED <<cmp, dd, phash, uploadVars, restVars>>

NextHashes == CompareHashes

SpecHashes == InitHashes /\ [][NextHashes]_vars

(***************************************************************************)
(* Specifications SpecDetect and SpecDetectPhash: detectDuplicates applied *)
(* to an image and a pool of at most MaxPool candidates.  SpecDetect is    *)
(* the module as it is loaded (the import of the pHash library is          *)
(* commented out, phash stays undefined); SpecDetectPhash is the module    *)
(* with that import enabled.                                               *)
(***************************************************************************)
PA == [i \in 1..8 |-> "a"]

PB == [i \in 1..8 |-> IF i = 8 THEN "b" ELSE "a"]

DetectImages == {NotABuffer, Buffer(0), Buffer(1)}

CandidateShapes ==
  [hash : {<<>>, Digest(1)},
   perceptualHash : {<<>>, PA, PB, Digest(1)},
   path : {"none", "missing", "ok"}]

Candidate(shape, id) ==
  [_id |-> id, hash |-> shape.hash, perceptualHash |-> shape.perceptualHash,
   path |-> shape.path, file |-> 1]

Pools(maxLen) ==
  UNION {{[i \in 1..n |-> Candidate(shapes[i], i)] : shapes \in [1..n -> CandidateShapes]} :
         n \in 0..maxLen}

DetectCalls(libOuts) ==
  [phase : {"call"}, imageBuffer : DetectImages, existingAssets : Pools(MaxPool),
   libOut : libOuts, verdict : Verdicts]

InitDetect ==
  /\ dd \in DetectCalls({<<>>})
  /\ phash = FALSE
  /\ cmp = NoCall
  /\ hc = NoCall
  /\ NoUploads
  /\ NoRest

InitDetectPhash ==
  /\ dd \in DetectCalls({<<>>, PA})
  /\ phash = TRUE
  /\ cmp = NoCall
  /\ hc = NoCall
  /\ NoUploads
  /\ NoRest

DetectDuplicates ==
  /\ dd.phase = "call"
  /\ dd' = [dd EXCEPT !.phase = "done"] @@
           [result |-> detectDuplicates(dd.imageBuffer, dd.existingAssets,
                                        dd.libOut, dd.verdict)]
  /\ UNCHANGED <<cmp, hc, phash, uploadVars, restVars>>

NextDetect == DetectDuplicates

SpecDetect == InitDetect /\ [][NextDetect]_vars

SpecDetectPhash == InitDetectPhash /\ [][NextDetect]_vars

(***************************************************************************)
(* POST /upload (routes/assets.js).  An asset of the collection is         *)
(*   [_id, creator, hash, perceptualHash, path, file, duplicateCheck]      *)
(* with hash and perceptualHash the fields of originalFile.  Requests are  *)
(* handled concurrently: a handler is suspended at each await, at most     *)
(* MaxInFlight of them at a time.                                          *)
(***************************************************************************)
AICheckLimit == 50

DetectLimit == 100

\* Asset.find({'originalFile.hash': {$exists: true}?, creator: {$ne: userId}}).limit(n)
RECURSIVE findAssetsAnyCreator(_, _, _, _)
findAssetsAnyCreator(coll, userId, needHash, limit) ==
  IF coll = <<>> \/ limit = 0 THEN <<>>
  ELSE IF needHash => Head(coll).hash # <<>>
       THEN <<Head(coll)>> \o findAssetsAnyCreator(Tail(coll), userId, needHash, limit - 1)
       ELSE findAssetsAnyCreator(Tail(coll), userId, needHash, limit)

RECURSIVE findAssets(_, _, _, _)
findAssets(coll, userId, needHash, limit) ==
  IF coll = <<>> \/ limit = 0 THEN <<>>
  ELSE IF Head(coll).creator # userId /\ (needHash => Head(coll).hash # <<>>)
       THEN <<Head(coll)>> \o findAssets(Tail(coll), userId, needHash, limit - 1)
       ELSE findAssets(Tail(coll), userId, needHash, limit)

Ids(pool) == [i \in 1..Len(pool) |-> pool[i]._id]

\* ImageProcessor.processImage: the files it has written when it returns
\* or throws (the QR code is written before the image is first decoded)
processImage(imageBuffer) ==
  IF Decodable(imageBuffer)
  THEN [ok |-> TRUE, files |-> {"qrcode", "thumbnail", "watermarked", "original"}]
  ELSE [ok |-> FALSE, files |-> {"qrcode"}]

\* AIService.checkForDuplicates: one compareImagesWithAI per asset whose
\* file can be read
RECURSIVE checkForDuplicates(_, _, _)
checkForDuplicates(newImageBuffer, existingAssets, verdicts) ==
  IF existingAssets = <<>> THEN [duplicates |-> <<>>, judgeCalls |-> 0]
  ELSE LET asset == Head(existingAssets)
           rest  == checkForDuplicates(newImageBuffer, Tail(existingAssets), Tail(verdicts))
       IN  IF asset.path # "ok" THEN rest
           ELSE LET comparison ==
                      compareImagesWithAI(newImageBuffer, Buffer(asset.file), Head(verdicts))
                IN  [duplicates |->
                       (IF comparison.ok /\ comparison.val.combinedResult.isDuplicate
                        THEN <<asset._id>> ELSE <<>>) \o rest.duplicates,
                     judgeCalls |-> rest.judgeCalls + 1]

\* the inputs of a request: "ok", or what is wrong with it
Inputs == {"ok", "negativePrice", "noFile", "notCreator", "tooManyTags"}

Request(user, bytes, isImage, input) ==
  [pc |-> "start", user |-> user, bytes |-> bytes, isImage |-> isImage, input |-> input,
   status |-> 0, reason |-> "", files |-> {}, pool1 |-> <<>>, pool2 |-> <<>>,
   judgeCalls |-> 0, matches |-> <<>>, isDuplicate |-> FALSE,
   confidence |-> <<0, 1>>, methods |-> NoMethods]

\* the response; the candidate pools are locals of the handler and are
\* gone when it returns
Respond(req, status, reason) ==
  [req EXCEPT !.pc = "done", !.status = status, !.reason = reason,
              !.pool1 = <<>>, !.pool2 = <<>>]

\* lines 168-214: validation of the request
validate(req) ==
  IF req.input = "negativePrice" THEN Respond(req, 400, "negativePrice")
  ELSE IF req.input = "noFile" THEN Respond(req, 400, "noFile")
  ELSE IF req.input = "notCreator" THEN Respond(req, 403, "notCreator")
  ELSE IF req.input = "tooManyTags" THEN Respond(req, 400, "tooManyTags")
  ELSE req

\* lines 241-275: the answer to the AI duplicate check and to the content
\* validation
imageAnswer(req, duplicateCheck, appropriate) ==
  LET checked == [req EXCEPT !.judgeCalls = duplicateCheck.judgeCalls]
  IN  IF Len(duplicateCheck.duplicates) > 0
      THEN Respond([checked EXCEPT !.matches = duplicateCheck.duplicates], 400, "duplicate")
      ELSE IF ~appropriate THEN Respond(checked, 400, "inappropriate")
      ELSE [checked EXCEPT !.pc = "detect"]

\* lines 226-260: image processing, then the duplicate check on the assets
\* of the first query
imageChecked(req, processedFiles, imageHash, existingAssets, verdicts, appropriate) ==
  IF ~processedFiles.ok \/ ~imageHash.ok
  THEN Respond([req EXCEPT !.files = processedFiles.files], 500, "processing")
  ELSE imageAnswer([req EXCEPT !.files = processedFiles.files,
                               !.pool1 = Ids(existingAssets)],
                   checkForDuplicates(Buffer(req.bytes), existingAssets, verdicts),
                   appropriate)

\* lines 223-285: the image branch, up to the content validation
imageBranch(req, coll, verdicts, appropriate) ==
  imageChecked(req, processImage(Buffer(req.bytes)), getImageHash(Buffer(req.bytes)),
               findAssets(coll, req.user, TRUE, AICheckLimit), verdicts, appropriate)

\* lines 286-306: other files are written to ./uploads/documents
documentBranch(req, written) ==
  IF written THEN [req EXCEPT !.pc = "detect", !.files = {"document"}]
  ELSE Respond(req, 500, "server")

\* a request that has been answered
AnsweredRequest == [pc |-> "answered"]

\* request r goes on as req, or is answered and becomes the last one answered
Step(r, req) ==
  IF req.pc = "done"
  THEN /\ reqs' = [reqs EXCEPT ![r] = AnsweredRequest]
       /\ last' = req
  ELSE /\ reqs' = [reqs EXCEPT ![r] = req]
       /\ UNCHANGED last

InProgress == {r \in 1..MaxRequests : reqs[r].pc \in {"detect", "save"}}

\* Users and file contents are interchangeable: requests arrive in the
\* order of their numbers, and a request is the first to use user u (bytes
\* b > 0) only when all smaller ones are in use.
UsedUsers ==
  {reqs[r].user : r \in InProgress} \cup {assets[i].creator : i \in 1..Len(assets)}

UsedBytes ==
  {reqs[r].bytes : r \in InProgress} \cup {assets[i].file : i \in 1..Len(assets)}

UploadBegin(r) ==
  /\ reqs[r].pc = "idle"
  /\ Cardinality(InProgress) < MaxInFlight
  /\ \A q \in 1..(r - 1) : reqs[q].pc # "idle"
  /\ \E user \in 1..MaxUsers, bytes \in 0..MaxBytes, isImage \in BOOLEAN, input \in Inputs :
       /\ \A u \in 1..(user - 1) : u \in UsedUsers
       /\ \A b \in 1..(bytes - 1) : b \in UsedBytes
       /\ LET req == validate(Request(user, bytes, isImage, input))
          IN  IF req.pc = "done"
              THEN user = 1 /\ bytes = 0 /\ ~isImage /\ Step(r, req)
              ELSE IF isImage
              THEN \E verdicts \in [1..Len(assets) -> Verdicts], appropriate \in BOOLEAN :
                     Step(r, imageBranch(req, assets, verdicts, appropriate))
              ELSE \E written \in BOOLEAN : Step(r, documentBranch(req, written))
  /\ UNCHANGED <<assets, cmp, hc, dd, phash, restVars>>

\* what detectDuplicates reads of a document of the collection: the schema
\* has no top-level perceptualHash, so asset.perceptualHash is undefined
ToCandidate(asset) ==
  [_id |-> asset._id, hash |-> asset.hash, perceptualHash |-> <<>>,
   path |-> asset.path, file |-> asset.file]

\* lines 316-326: the answer to the result of detectDuplicates
detectAnswer(req, duplicateResult, aiCalls) ==
  LET seen == [req EXCEPT !.judgeCalls = req.judgeCalls + aiCalls,
                          !.isDuplicate = duplicateResult.isDuplicate,
                          !.confidence = duplicateResult.confidence,
                          !.methods = duplicateResult.methods,
                          !.matches = [i \in 1..Len(duplicateResult.matches) |->
                                         duplicateResult.matches[i].assetId]]
  IN  IF duplicateResult.isDuplicate /\ RatGT(duplicateResult.confidence, <<8, 10>>)
      THEN Respond(seen, 409, "duplicate")
      ELSE [seen EXCEPT !.pc = "save"]

\* lines 314-326: detectDuplicates on the assets of the second query
detectChecked(req, existingAssets, result) ==
  detectAnswer([req EXCEPT !.pool1 = <<>>, !.pool2 = Ids(existingAssets)],
               result.decision, result.aiCalls)

\* the documents of the pool as detectDuplicates reads them
Candidates(existingAssets) ==
  [i \in 1..Len(existingAssets) |-> ToCandidate(existingAssets[i])]

\* line 314: detectDuplicates(req.file.buffer, existingAssets)
detectFound(req, existingAssets, verdict) ==
  detectChecked(req, existingAssets,
                detectDuplicates(Buffer(req.bytes), Candidates(existingAssets), <<>>, verdict))

\* lines 308-326: enhanced duplicate detection
detectStep(req, coll, verdict) ==
  detectFound(req, findAssets(coll, req.user, FALSE, DetectLimit), verdict)

UploadDetect(r) ==
  /\ reqs[r].pc = "detect"
  /\ \E verdict \in Verdicts : Step(r, detectStep(reqs[r], assets, verdict))
  /\ UNCHANGED <<assets, cmp, hc, dd, phash, restVars>>

\* AIService.processImageForDuplicateDetection
processImageForDuplicateDetection(imageBuffer) ==
  [sha256Hash |-> generateSHA256Hash(imageBuffer).val,
   perceptualHash |-> IF phash THEN generatePerceptualHash(imageBuffer, <<>>).val ELSE <<>>]

\* the paths of duplicateCheck in assetSchema (Asset.js 130-138)
DuplicateCheckPaths == {"isDuplicate", "similarAssets", "checkedAt"}

\* new Asset({... duplicateCheck: obj}): the schema is strict (the default),
\* a property that is no path of the schema is dropped, and an array path
\* that is not given is the empty array
castDuplicateCheck(obj) ==
  [path \in DuplicateCheckPaths |-> IF path \in DOMAIN obj THEN obj[path] ELSE <<>>]

\* lines 328-397: the asset document that is saved
newAsset(req, id) ==
  LET hashData == processImageForDuplicateDetection(Buffer(req.bytes))
  IN  [_id |-> id, creator |-> req.user, hash |-> hashData.sha256Hash,
       perceptualHash |-> hashData.perceptualHash, path |-> "ok", file |-> req.bytes,
       duplicateCheck |->
         castDuplicateCheck([isDuplicate |-> req.isDuplicate,
                             confidence |-> req.confidence,
                             methods |-> req.methods,
                             matches |-> req.matches,
                             checkedAt |-> "now"])]

\* asset.save() rejects when the document fails the schema's validation
\* (title and description are required) or the database fails
UploadSave(r) ==
  /\ reqs[r].pc = "save"
  /\ \E saved \in BOOLEAN :
       IF saved
       THEN /\ assets' = Append(assets, newAsset(reqs[r], Len(assets) + 1))
            /\ Step(r, Respond(reqs[r], 201, "created"))
       ELSE /\ Step(r, Respond(reqs[r], 500, "server"))
            /\ UNCHANGED assets
  /\ UNCHANGED <<cmp, hc, dd, phash, restVars>>

Init ==
  /\ NoUploads
  /\ NoRest
  /\ cmp = NoCall
  /\ hc = NoCall
  /\ dd = NoCall
  /\ phash = FALSE

Next == \E r \in 1..MaxRequests : UploadBegin(r) \/ UploadDetect(r) \/ UploadSave(r)

Spec == Init /\ [][Next]_vars

(***************************************************************************)
(* Specification SpecQueries: the two candidate queries of POST /upload    *)
(* applied to collections of up to MaxColl documents.  Document i of       *)
(* Collection(n, own, kinds) was created by user 1 when own > 0 and own    *)
(* divides i, by user 2 otherwise; its originalFile.hash is a digest, is   *)
(* absent or is null (the earlier version of the route stores              *)
(* hash: imageHash, null for a file that is not an image), in the order    *)
(* that kinds gives.                                                       *)
(***************************************************************************)
\* originalFile.hash: null
Null == <<"null">>

HashKinds == <<Digests[1], <<>>, Null>>

Collection(n, own, kinds) ==
  [i \in 1..n |->
     [_id |-> i,
      creator |-> IF own > 0 /\ i % own = 0 THEN 1 ELSE 2,
      hash |-> HashKinds[((i * kinds) % Len(HashKinds)) + 1],
      perceptualHash |-> <<>>, path |-> "ok", file |-> 1,
      duplicateCheck |-> [isDuplicate |-> FALSE, similarAssets |-> <<>>,
                          checkedAt |-> "now"]]]

InitQueries ==
  /\ fq \in [phase : {"call"}, userId : 1..MaxUsers, n : 0..MaxColl,
              own : 0..2, kinds : 0..2]
  /\ cmp = NoCall
  /\ hc = NoCall
  /\ dd = NoCall
  /\ phash = FALSE
  /\ NoUploads
  /\ NoPayments
  /\ NoMarket
  /\ NoNFT
  /\ ipfs = NoCall

\* routes/assets.js 236-239 and 310-312
FindCandidates ==
  /\ fq.phase = "call"
  /\ fq' = [fq EXCEPT !.phase = "done"] @@
           [pool1 |-> findAssets(Collection(fq.n, fq.own, fq.kinds), fq.userId,
                                 TRUE, AICheckLimit),
            pool2 |-> findAssets(Collection(fq.n, fq.own, fq.kinds), fq.userId,
                                 FALSE, DetectLimit)]
  /\ UNCHANGED <<cmp, hc, dd, phash, uploadVars, payVars, mktVars, nftVars, ipfs>>

NextQueries == FindCandidates

SpecQueries == InitQueries /\ [][NextQueries]_vars

(***************************************************************************)
(* The payment routes (part_005): POST /create, POST /:paymentId/process   *)
(* and GET /:paymentId/download, on one asset on sale (id 1; no asset has  *)
(* id 2).  Amounts are in thousandths of the currency unit.  A payment is  *)
(*   [found, asset, amount, creatorAmount, paymentStatus, transactionId,   *)
(*    paidAt, accessGranted, accessExpiresAt, deliveryEmail,               *)
(*    originalFileSent]                                                    *)
(* and payment i of the collection has id i.                               *)
(***************************************************************************)
AssetStatuses == {"draft", "published", "archived", "flagged"}

\* the price of the asset when it is put on sale
Prices == {500}

\* Math.abs(paymentAmount - assetPrice) > 0.01
PriceTolerance == 10

AmountOffsets ==
  {0 - (PriceTolerance + 1), 0 - PriceTolerance, 0, PriceTolerance, PriceTolerance + 1}

\* a Date that is not set
NoDate == -1

\* grantAccess: 24 hours; the clock ticks once in 24 hours
AccessPeriod == 1

Emails == {"a@x", "A@x"}

\* no email in the request, or one that isEmail() rejects
NoEmail == ""

\* express-validator's normalizeEmail() lower-cases the address
normalizeEmail(email) == IF email = "A@x" THEN "a@x" ELSE email

\* the asset on sale: the fields of assetSchema that the payment routes
\* read or write
Items ==
  [price : Prices, isPublic : BOOLEAN, status : AssetStatuses,
   downloads : {1}, purchases : {0}, revenue : {0}]

\* the statistics of the seller's User document
NoSales == [totalSales |-> 0, totalEarnings |-> 0]

\* findById gives null
NoPayment == [found |-> FALSE]

findPayment(coll, paymentId) ==
  IF paymentId \in 1..Len(coll) THEN coll[paymentId] ELSE NoPayment

Abs(x) == IF x < 0 THEN 0 - x ELSE x

Answer(status, error) == [status |-> status, error |-> error]

\* asset.status || 'published'
statusOrPublished(asset) == IF asset.status = "" THEN "published" ELSE asset.status

\* mutant: the amount is not compared with the asset price
createCheckAnyAmount(assetFound, asset, email, amount) ==
  IF email = NoEmail \/ amount < 0 THEN Answer(400, "validation")
  ELSE IF ~assetFound THEN Answer(404, "asset")
  ELSE IF ~asset.isPublic \/ statusOrPublished(asset) \notin {"published", "active"}
       THEN Answer(400, "unavailable")
  ELSE IF asset.price < 0 THEN Answer(400, "negative")
  ELSE Answer(0, "")

\* POST /create, lines 132-252: the rejections; status 0 when there is none
createCheck(assetFound, asset, email, amount) ==
  IF email = NoEmail \/ amount < 0 THEN Answer(400, "validation")
  ELSE IF ~assetFound THEN Answer(404, "asset")
  ELSE IF ~asset.isPublic \/ statusOrPublished(asset) \notin {"published", "active"}
       THEN Answer(400, "unavailable")
  ELSE IF Abs(amount - asset.price) > PriceTolerance THEN Answer(400, "mismatch")
  ELSE IF asset.price < 0 THEN Answer(400, "negative")
  ELSE Answer(0, "")

\* paymentSchema.methods.calculateFees: platformFee is
\* Math.round(amount * 0.1 * 100) / 100, creatorAmount the rest
platformFee(amount) == 10 * ((amount + 50) \div 100)

calculateFees(payment) ==
  [payment EXCEPT !.creatorAmount = payment.amount - platformFee(payment.amount)]

\* new Payment({...}), lines 255-265, with the defaults of paymentSchema;
\* transactionId 0 is a transactionId that is not set
newPayment(asset, email) ==
  [found |-> TRUE, asset |-> 1, amount |-> asset.price, creatorAmount |-> 0,
   paymentStatus |-> "pending", transactionId |-> 0, paidAt |-> NoDate,
   accessGranted |-> FALSE, accessExpiresAt |-> NoDate, deliveryEmail |-> email,
   originalFileSent |-> FALSE]

\* lines 267-298: calculateFees() saves the payment, payment.save() saves
\* it again; a save that rejects is answered 500
createAnswer(check, saved1, saved2) ==
  IF check.status # 0 THEN [check EXCEPT !.error = check.error] @@ [stored |-> FALSE]
  ELSE IF ~saved1 THEN [status |-> 500, error |-> "server", stored |-> FALSE]
  ELSE IF ~saved2 THEN [status |-> 500, error |-> "server", stored |-> TRUE]
  ELSE [status |-> 201, error |-> "", stored |-> TRUE]

CreateRespond(answer, assetId, email, amount, payment) ==
  /\ answer.stored => Len(payments) < MaxPayments
  /\ payments' = IF answer.stored THEN Append(payments, payment) ELSE payments
  /\ resp' = [route |-> "create", status |-> answer.status, error |-> answer.error,
              assetId |-> assetId, amount |-> amount, price |-> item.price,
              before |-> Len(payments),
              payment |-> IF answer.stored THEN payment ELSE NoPayment]

\* the outcomes of the two saves matter to an accepted request only
CreateHandle(check, assetId, email, amount, payment) ==
  \E saved1 \in BOOLEAN, saved2 \in BOOLEAN :
    /\ check.status # 0 => saved1 /\ saved2
    /\ CreateRespond(createAnswer(check, saved1, saved2), assetId, email, amount,
                     payment)

CreatePayment ==
  /\ \E assetId \in {1, 2}, email \in {"A@x", NoEmail}, offset \in AmountOffsets :
       CreateHandle(createCheck(assetId = 1, item, email, item.price + offset),
                    assetId, email, item.price + offset,
                    calculateFees(newPayment(item, normalizeEmail(email))))
  /\ UNCHANGED <<item, procs, now, seller>>
  /\ UNCHANGED <<cmp, hc, dd, phash, uploadVars, fq, ipfs, mktVars, nftVars>>

\* a client that has no POST /:paymentId/process request in progress
IdleProc == [stage |-> "idle", id |-> 0]

Clients == DOMAIN procs

\* the request of client c moves on to the next await of the handler
Advance(c, stage) == procs' = [procs EXCEPT ![c].stage = stage]

\* POST /:paymentId/process, lines 309-343: the rejections
processCheck(payment, email) ==
  IF email = NoEmail THEN Answer(400, "validation")
  ELSE IF ~payment.found THEN Answer(404, "payment")
  ELSE IF payment.paymentStatus # "pending" THEN Answer(400, "processed")
  ELSE Answer(0, "")

ProcessRespond(c, check, paymentId) ==
  IF check.status = 0
  THEN procs' = [procs EXCEPT ![c] = [stage |-> "found", id |-> paymentId]]
       /\ UNCHANGED resp
  ELSE /\ resp' = [route |-> "process", status |-> check.status, error |-> check.error,
                   id |-> paymentId]
       /\ UNCHANGED procs

ProcessFind ==
  /\ \E c \in Clients, paymentId \in 1..(MaxPayments + 1), email \in {"a@x", NoEmail} :
       /\ procs[c].stage = "idle"
       /\ ProcessRespond(c, processCheck(findPayment(payments, paymentId), email),
                         paymentId)
  /\ UNCHANGED <<item, payments, now, seller>>
  /\ UNCHANGED <<cmp, hc, dd, phash, uploadVars, fq, ipfs, mktVars, nftVars>>

\* mutant: the payment is completed without a date of payment
markCompletedUndated(payment, transactionId, at) ==
  [payment EXCEPT !.paymentStatus = "completed", !.transactionId = transactionId]

\* paymentSchema.methods.markCompleted
markCompleted(payment, transactionId, at) ==
  [payment EXCEPT !.paymentStatus = "completed", !.transactionId = transactionId,
                  !.paidAt = at]

\* paymentSchema.methods.grantAccess
grantAccess(payment, at) ==
  [payment EXCEPT !.accessGranted = TRUE, !.accessExpiresAt = at + AccessPeriod]

\* paymentSchema.methods.markFileSent
markFileSent(payment) == [payment EXCEPT !.originalFileSent = TRUE]

\* lines 349-352: await payment.markCompleted(transactionId); the
\* transactionId of a request is the number of its client
ProcessComplete ==
  /\ \E c \in Clients :
       /\ procs[c].stage = "found"
       /\ payments' = [payments EXCEPT ![procs[c].id] = markCompleted(@, c, now)]
       /\ Advance(c, "completed")
  /\ UNCHANGED <<item, now, resp, seller>>
  /\ UNCHANGED <<cmp, hc, dd, phash, uploadVars, fq, ipfs, mktVars, nftVars>>

\* line 355: await payment.grantAccess()
ProcessGrant ==
  /\ \E c \in Clients :
       /\ procs[c].stage = "completed"
       /\ payments' = [payments EXCEPT ![procs[c].id] = grantAccess(@, now)]
       /\ Advance(c, "granted")
  /\ UNCHANGED <<item, now, resp, seller>>
  /\ UNCHANGED <<cmp, hc, dd, phash, uploadVars, fq, ipfs, mktVars, nftVars>>

\* the value of a numeric field that populate() did not select (undefined,
\* and NaN after arithmetic); the numbers of the model are not negative
Undefined == -1

\* (isNaN(x) || x === undefined) ? 0 : Number(x)
orZero(x) == IF x = Undefined THEN 0 ELSE x

\* populate('asset', ...) of the payment routes selects title, creator and
\* originalFile: the numeric fields of the document are undefined
populated(asset) ==
  [asset EXCEPT !.price = Undefined, !.downloads = Undefined,
                !.purchases = Undefined, !.revenue = Undefined]

\* assetSchema.methods.recordPurchase, before its save()
recordPurchase(doc, amount) ==
  [doc EXCEPT !.purchases = orZero(@) + 1, !.revenue = orZero(@) + amount]

\* assetSchema.pre('save'): every numeric field that is undefined or NaN
\* becomes 0
preSave(doc) ==
  [doc EXCEPT !.price = orZero(@), !.downloads = orZero(@),
              !.purchases = orZero(@), !.revenue = orZero(@)]

\* lines 357-359: await payment.asset.recordPurchase(purchaseAmount); the
\* save() writes the fields that were assigned
ProcessRecord ==
  /\ \E c \in Clients :
       /\ procs[c].stage = "granted"
       /\ item' = preSave(recordPurchase(populated(item), payments[procs[c].id].amount))
       /\ Advance(c, "recorded")
  /\ UNCHANGED <<payments, now, resp, seller>>
  /\ UNCHANGED <<cmp, hc, dd, phash, uploadVars, fq, ipfs, mktVars, nftVars>>

\* lines 361-365: User.findByIdAndUpdate(seller, {$inc: ...})
ProcessCredit ==
  /\ \E c \in Clients :
       /\ procs[c].stage = "recorded"
       /\ seller' = [totalSales |-> seller.totalSales + 1,
                     totalEarnings |-> seller.totalEarnings
                                       + payments[procs[c].id].creatorAmount]
       /\ Advance(c, "credited")
  /\ UNCHANGED <<item, payments, now, resp>>
  /\ UNCHANGED <<cmp, hc, dd, phash, uploadVars, fq, ipfs, mktVars, nftVars>>

\* lines 367-388: await payment.markFileSent() and the response
ProcessSent ==
  /\ \E c \in Clients :
       /\ procs[c].stage = "credited"
       /\ payments' = [payments EXCEPT ![procs[c].id] = markFileSent(@)]
       /\ resp' = [route |-> "process", status |-> 200, error |-> "",
                   id |-> procs[c].id]
       /\ procs' = [procs EXCEPT ![c] = IdleProc]
  /\ UNCHANGED <<item, now, seller>>
  /\ UNCHANGED <<cmp, hc, dd, phash, uploadVars, fq, ipfs, mktVars, nftVars>>

\* lines 390-396: the next await of a request rejects
ProcessFail ==
  /\ \E c \in Clients :
       /\ procs[c].stage # "idle"
       /\ resp' = [route |-> "process", status |-> 500, error |-> "server",
                   id |-> procs[c].id]
       /\ procs' = [procs EXCEPT ![c] = IdleProc]
  /\ UNCHANGED <<item, payments, now, seller>>
  /\ UNCHANGED <<cmp, hc, dd, phash, uploadVars, fq, ipfs, mktVars, nftVars>>

\* mutant: the email of the request is not compared with deliveryEmail
downloadCheckAnyEmail(payment, email, at) ==
  IF email = NoEmail THEN Answer(400, "email")
  ELSE IF ~payment.found THEN Answer(404, "payment")
  ELSE IF payment.paymentStatus # "completed" THEN Answer(403, "status")
  ELSE IF ~payment.accessGranted THEN Answer(403, "access")
  ELSE IF payment.accessExpiresAt # NoDate /\ at > payment.accessExpiresAt
       THEN Answer(403, "expired")
  ELSE Answer(0, "")

\* GET /:paymentId/download, lines 402-454: the rejections
downloadCheck(payment, email, at) ==
  IF email = NoEmail THEN Answer(400, "email")
  ELSE IF ~payment.found THEN Answer(404, "payment")
  ELSE IF payment.paymentStatus # "completed" THEN Answer(403, "status")
  ELSE IF ~payment.accessGranted THEN Answer(403, "access")
  ELSE IF payment.accessExpiresAt # NoDate /\ at > payment.accessExpiresAt
       THEN Answer(403, "expired")
  ELSE IF payment.deliveryEmail # email THEN Answer(403, "mismatch")
  ELSE Answer(0, "")

\* lines 456-479.  incrementDownloads() is this.downloads += 1 and save()
\* on an asset populated with 'originalFile title' only: downloads is
\* undefined and the sum is NaN.  Either the save rejects the document
\* (answered 500), or the pre-save hook of assetSchema replaces the NaN and
\* the other undefined numbers by 0 and the file is streamed.
downloadAnswer(check, asset, filePresent, saved) ==
  IF check.status # 0 THEN check @@ [served |-> FALSE, asset |-> asset]
  ELSE IF ~filePresent
       THEN [status |-> 404, error |-> "file", served |-> FALSE, asset |-> asset]
  ELSE IF ~saved
       THEN [status |-> 500, error |-> "server", served |-> FALSE, asset |-> asset]
  ELSE [status |-> 200, error |-> "", served |-> TRUE,
        asset |-> preSave(populated(asset))]

DownloadRespond(answer, payment, email) ==
  /\ item' = answer.asset
  /\ resp' = [route |-> "download", status |-> answer.status, error |-> answer.error,
              served |-> answer.served, payment |-> payment, email |-> email,
              at |-> now, before |-> item.downloads,
              after |-> answer.asset.downloads]

\* the file and the save matter to an entitled request only
DownloadHandle(check, payment, email) ==
  \E filePresent \in BOOLEAN, saved \in BOOLEAN :
    /\ check.status # 0 => filePresent /\ saved
    /\ ~filePresent => saved
    /\ DownloadRespond(downloadAnswer(check, item, filePresent, saved), payment, email)

Download ==
  /\ \E paymentId \in 1..(MaxPayments + 1), email \in Emails \cup {NoEmail} :
       DownloadHandle(downloadCheck(findPayment(payments, paymentId), email, now),
                      findPayment(payments, paymentId), email)
  /\ UNCHANGED <<payments, procs, now, seller>>
  /\ UNCHANGED <<cmp, hc, dd, phash, uploadVars, fq, ipfs, mktVars, nftVars>>

\* time passes
Tick ==
  /\ now < MaxTime
  /\ now' = now + 1
  /\ UNCHANGED <<item, payments, procs, resp, seller>>
  /\ UNCHANGED <<cmp, hc, dd, phash, uploadVars, fq, ipfs, mktVars, nftVars>>

\* the variables of the other components
NoOthers ==
  /\ fq = NoCall
  /\ ipfs = NoCall
  /\ cmp = NoCall
  /\ hc = NoCall
  /\ dd = NoCall
  /\ phash = FALSE
  /\ NoUploads
  /\ NoMarket
  /\ NoNFT

\* an asset on sale, no payment yet, one client of /process
InitPayments ==
  /\ item \in Items
  /\ payments = <<>>
  /\ procs = <<IdleProc>>
  /\ now = 0
  /\ resp = NoCall
  /\ seller = NoSales
  /\ NoOthers

NextPayments ==
  \/ CreatePayment
  \/ ProcessFind
  \/ ProcessComplete
  \/ ProcessGrant
  \/ ProcessRecord
  \/ ProcessCredit
  \/ ProcessSent
  \/ ProcessFail
  \/ Download
  \/ Tick

SpecPayments == InitPayments /\ [][NextPayments]_vars

\* a published asset with purchases on record and one pending payment for
\* it, as POST /create stores it
SoldItems ==
  [price : Prices, isPublic : {TRUE}, status : {"published"},
   downloads : {1}, purchases : {0, 2}, revenue : {0, 1000}]

\* MaxClients clients send POST /:paymentId/process for that payment
InitProcess ==
  /\ item \in SoldItems
  /\ payments = <<calculateFees(newPayment(item, "a@x"))>>
  /\ procs = [c \in 1..MaxClients |-> IdleProc]
  /\ now = 0
  /\ resp = NoCall
  /\ seller = NoSales
  /\ NoOthers

NextProcess ==
  \/ ProcessFind
  \/ ProcessComplete
  \/ ProcessGrant
  \/ ProcessRecord
  \/ ProcessCredit
  \/ ProcessSent
  \/ ProcessFail
  \/ Tick

SpecProcess == InitProcess /\ [][NextProcess]_vars

(***************************************************************************)
(* Properties of the hashing and comparison functions.                     *)
(***************************************************************************)
\* number of adjacent-pixel comparisons on which two grids differ
DiffCount(img1, img2) ==
  Cardinality((CmpBits(img1) \ CmpBits(img2)) \cup (CmpBits(img2) \ CmpBits(img1)))

\* C2: two images whose comparison bit vectors differ in at least 30
\* positions are reported by compareImages at distance >= 30 and as not
\* similar.
C2_UnrelatedNotSimilar ==
  (/\ cmp.phase = "done"
   /\ cmp.result.ok
   /\ DiffCount(GridOf(cmp.image1), GridOf(cmp.image2)) >= 30)
  => (cmp.result.val.distance >= 30 /\ ~cmp.result.val.isSimilar)

Decision == dd.result.decision

HasExactMatch ==
  /\ dd.imageBuffer.isBuffer
  /\ \E i \in 1..Len(dd.existingAssets) :
       dd.existingAssets[i].hash = Digest(dd.imageBuffer.bytes)

\* C1: when a candidate's stored originalFile.hash equals the SHA-256
\* digest of the buffer, the decision is isDuplicate with confidence 1.0,
\* only the sha256 method is recorded and no AI-judge call was made.
C1_ExactMatchShortCircuits ==
  (dd.phase = "done" /\ HasExactMatch) =>
    /\ ~Decision.threw
    /\ Decision.isDuplicate
    /\ Decision.confidence = <<1, 1>>
    /\ Decision.methods = [sha256 |-> TRUE, perceptual |-> FALSE, ai |-> FALSE]
    /\ dd.result.aiCalls = 0

\* an exact match on a candidate whose file the AI stage could have read
C1_Witness ==
  /\ dd.phase = "done"
  /\ HasExactMatch
  /\ Len(dd.existingAssets) = 2
  /\ \A i \in 1..2 : dd.existingAssets[i].path = "ok"
  /\ dd.verdict = "affirm"
  /\ Len(Decision.matches) = 1

JudgeAnswered(verdict) ==
  /\ dd.phase = "done"
  /\ dd.result.aiCalls = 1
  /\ dd.verdict = verdict
  /\ Decodable(dd.imageBuffer)

WithoutFiles(pool) == [i \in 1..Len(pool) |-> [pool[i] EXCEPT !.path = "missing"]]

StoredSimilarity(i) ==
  perceptualSimilarity(generatePerceptualHash(dd.imageBuffer, dd.libOut).val,
                       dd.existingAssets[i].perceptualHash)

PerceptuallySimilar(i) ==
  /\ dd.existingAssets[i].perceptualHash # <<>>
  /\ RatGT(StoredSimilarity(i), <<85, 100>>)

\* C10: with the judge unavailable, an image that is not byte-identical to
\* any candidate but perceptually similar to one with a stored perceptual
\* hash is reported isDuplicate with the perceptual similarity as
\* confidence, the perceptual method recorded and the ai method not.
C10_PerceptualOnly ==
  (/\ dd.phase = "done"
   /\ dd.verdict = "unavailable"
   /\ dd.imageBuffer.isBuffer
   /\ ~HasExactMatch
   /\ \E i \in 1..Len(dd.existingAssets) : PerceptuallySimilar(i))
  => /\ Decision.isDuplicate
     /\ \E i \in 1..Len(dd.existingAssets) :
          PerceptuallySimilar(i) /\ RatEq(Decision.confidence, StoredSimilarity(i))
     /\ \A i \in 1..Len(dd.existingAssets) :
          PerceptuallySimilar(i) => RatGE(Decision.confidence, StoredSimilarity(i))
     /\ Decision.methods.perceptual
     /\ ~Decision.methods.ai


(***************************************************************************)
(* Properties of POST /upload.                                             *)
(***************************************************************************)
\* the assets of the collection that the ids of a pool name
CreatorsOf(ids) == {assets[ids[i]].creator : i \in 1..Len(ids)}

\* C4: during an upload by creator U no asset created by U is in the pool
\* handed to checkForDuplicates (pool1) or to detectDuplicates (pool2), and
\* an upload rejected as a duplicate (400 or 409) is never matched against
\* an asset of its own uploader.
C4_OwnAssetsExcluded ==
  /\ \A r \in InProgress :
       reqs[r].user \notin CreatorsOf(reqs[r].pool1) \cup CreatorsOf(reqs[r].pool2)
  /\ (last.pc = "done" /\ last.reason = "duplicate") =>
       last.user \notin CreatorsOf(last.matches)

\* the uploader stores the bytes of one of their own assets a second time,
\* while the pool held another creator's asset
C4_Witness ==
  /\ last.pc = "done"
  /\ last.status = 201
  /\ \E i, j, k \in 1..Len(assets) :
       /\ i < j /\ j < k /\ k = Len(assets)
       /\ assets[i].creator = last.user
       /\ assets[k].creator = last.user
       /\ assets[j].creator # last.user
       /\ assets[i].file = assets[k].file
       /\ assets[i].hash = assets[k].hash

\* C5: in the handling of one upload request the AI judge is called at
\* most once.
C5_JudgeAtMostOnce ==
  /\ \A r \in InProgress : reqs[r].judgeCalls <= 1
  /\ last.pc = "done" => last.judgeCalls <= 1

\* C7: an image upload whose bytes cannot be decoded is not blocked by the
\* failure of getImageHash: it is not answered with the image branch's 500.
C7_UndecodableNotBlocked ==
  (/\ last.pc = "done"
   /\ last.input = "ok"
   /\ last.isImage
   /\ ~getImageHash(Buffer(last.bytes)).ok)
  => ~(last.status = 500 /\ last.reason = "processing")


PoolFiltered(pool, userId, cap) ==
  /\ Len(pool) <= cap
  /\ \A i \in 1..Len(pool) :
       /\ pool[i].creator # userId
       /\ pool[i].hash \notin {<<>>, Null}

\* C12: every candidate pool built for an upload contains only assets
\* that have a stored hash and do not belong to the uploader, and never
\* more than the cap (50 for the AI check, 100 for detectDuplicates).
C12_PoolsFiltered ==
  fq.phase = "done" =>
    /\ PoolFiltered(fq.pool1, fq.userId, AICheckLimit)
    /\ PoolFiltered(fq.pool2, fq.userId, DetectLimit)

\* what the two queries do guarantee: no asset of the uploader, at most
\* cap entries, and in the first pool the hash field exists
C12_CapAndOwner ==
  fq.phase = "done" =>
    /\ Len(fq.pool1) <= AICheckLimit
    /\ Len(fq.pool2) <= DetectLimit
    /\ \A i \in 1..Len(fq.pool1) :
         fq.pool1[i].creator # fq.userId /\ fq.pool1[i].hash # <<>>
    /\ \A i \in 1..Len(fq.pool2) : fq.pool2[i].creator # fq.userId

\* the cap of the second query cuts a pool of documents that all have a
\* digest
C12_CapReached ==
  /\ fq.phase = "done"
  /\ Len(fq.pool2) = DetectLimit
  /\ fq.n > DetectLimit
  /\ fq.kinds = 0


\* C13: comparing (h1, h2) and comparing (h2, h1) give the same distance
\* and the same similarity, for both comparators.
C13_Symmetric ==
  hc.phase = "done" =>
    /\ hc.result.distance = compareHashes(hc.hash2, hc.hash1).distance
    /\ hc.result.similarity = compareHashes(hc.hash2, hc.hash1).similarity
    /\ hc.result.distance = hammingDistance(hc.hash2, hc.hash1)
    /\ hc.ai.distance = AIService_hammingDistance(hc.hash2, hc.hash1)
    /\ hc.ai.similarity = perceptualSimilarity(hc.hash2, hc.hash1)

\* two strings of different lengths that differ beyond the shorter one
C13_Witness ==
  /\ hc.phase = "done"
  /\ Len(hc.hash1) < Len(hc.hash2)
  /\ hc.result.distance > Len(hc.hash1)
  /\ hc.ai.distance = Infinity

\* the number of positions that differ once the shorter string is
\* right-padded with "0" to the length of the longer one
PaddedDifference(h1, h2) ==
  LET n == Max(Len(h1), Len(h2))
      c(h, i) == IF i <= Len(h) THEN h[i] ELSE "0"
  IN  Cardinality({i \in 1..n : c(h1, i) # c(h2, i)})

\* C14: for two hash strings of different lengths the distance is the
\* number of positions that differ after padding, for the comparator of
\* compareImages and for the one of detectDuplicates.
C14_PaddedDistance ==
  (hc.phase = "done" /\ Len(hc.hash1) # Len(hc.hash2)) =>
    /\ hc.result.distance = PaddedDifference(hc.hash1, hc.hash2)
    /\ hc.ai.distance = PaddedDifference(hc.hash1, hc.hash2)

\* C15: the distance is an integer >= 0 and the similarity lies in [0,1],
\* for both comparators, also for strings of different lengths.
C15_ResultInRange ==
  hc.phase = "done" =>
    /\ hc.result.distance \in Nat
    /\ RatGE(hc.result.similarity, <<0, 1>>) /\ RatGE(<<1, 1>>, hc.result.similarity)
    /\ hc.ai.distance # Infinity /\ hc.ai.distance \in Nat
    /\ RatGE(hc.ai.similarity, <<0, 1>>) /\ RatGE(<<1, 1>>, hc.ai.similarity)


\* C16: getImageHash encodes one independent bit per adjacent-pixel
\* comparison, so two grids whose comparison bit vectors differ in some
\* position get different hash values.
C16_OneBitPerComparison ==
  (/\ cmp.phase = "done"
   /\ cmp.result.ok
   /\ CmpBits(GridOf(cmp.image1)) # CmpBits(GridOf(cmp.image2)))
  => cmp.result.val.hash1 # cmp.result.val.hash2


(***************************************************************************)
(* Properties of what POST /upload does with the decision.                 *)
(***************************************************************************)
\* the decision that blocks an upload
Blocking(req) == req.isDuplicate /\ RatGT(req.confidence, <<8, 10>>)

\* the asset stored for the request answered last, a 201
StoredAsset == assets[Len(assets)]

\* C17: an upload whose decision has isDuplicate and confidence > 0.8 is
\* answered 409 with the matches and methods and creates no asset; every
\* accepted upload stores the decision (isDuplicate, confidence, methods,
\* matches, checkedAt) in the duplicateCheck of the new asset.
C17_DecisionHandled ==
  /\ \A r \in InProgress : reqs[r].pc = "save" => ~Blocking(reqs[r])
  /\ (last.pc = "done" /\ last.status = 409) =>
       Blocking(last) /\ last.matches # <<>> /\ last.methods # NoMethods
  /\ (last.pc = "done" /\ last.status = 201) =>
       /\ {"isDuplicate", "confidence", "methods", "matches", "checkedAt"}
            \subseteq DOMAIN StoredAsset.duplicateCheck
       /\ StoredAsset.duplicateCheck.isDuplicate = last.isDuplicate
       /\ StoredAsset.duplicateCheck.confidence = last.confidence
       /\ StoredAsset.duplicateCheck.methods = last.methods
       /\ StoredAsset.duplicateCheck.matches = last.matches

\* the part of C17 on the rejection: a blocking decision is answered 409
\* and no request with a blocking decision reaches asset.save()
C17_BlockedWith409 ==
  /\ \A r \in InProgress : reqs[r].pc = "save" => ~Blocking(reqs[r])
  /\ (last.pc = "done" /\ last.status = 409) =>
       Blocking(last) /\ last.matches # <<>> /\ last.methods # NoMethods
  /\ (last.pc = "done" /\ last.status = 201) =>
       ~Blocking(last) /\ StoredAsset.creator = last.user

\* an upload answered 409 on another creator's identical bytes
C17_Rejected ==
  /\ last.pc = "done"
  /\ last.status = 409
  /\ Len(assets) > 0

(***************************************************************************)
(* AuthenziaMarketplace.sol: the auctions of one ERC-721 token of a        *)
(* standard (OpenZeppelin) token contract.  A call that reverts leaves the *)
(* state as it was, so each action is enabled where its call succeeds.     *)
(* Amounts and times stay far below 2^256.                                 *)
(***************************************************************************)
Users == {"seller", "alice", "bob"}

\* address(this)
Market == "market"

\* address(0)
ZeroAddress == "0x0"

\* the amounts of bids and reserve prices
BidAmounts == 0..2

\* the ERC-20 tokens; the constructor is given the first as
\* defaultPaymentToken
Tokens == {"usdc", "dai"}

DefaultPaymentToken == "usdc"

\* what royaltyInfo() can ask for: nothing, or more than any bid
Royalties == {0, 3}

\* uint256 public marketplaceFee = 250
MarketplaceFee == 250

BasisPoints == 10000

\* the value of auctions[auctionId] for an id that was never written
NoAuction ==
  [auctionId |-> 0, seller |-> ZeroAddress, startTime |-> 0, endTime |-> 0,
   reservePrice |-> 0, minBidIncrement |-> 0, currentBid |-> 0,
   currentBidder |-> ZeroAddress, settled |-> FALSE, cancelled |-> FALSE,
   paymentToken |-> ZeroAddress]

auctionAt(map, auctionId) ==
  IF auctionId \in 1..Len(map) THEN map[auctionId] ELSE NoAuction

Emit(name, auctionId, who, amount) ==
  events' = events (+) SetToBag({[name |-> name, auctionId |-> auctionId,
                                  who |-> who, amount |-> amount]})

\* IERC721.transferFrom(from, to, tokenId) called by the marketplace: it
\* reverts unless from owns the token and the marketplace is the owner or
\* is approved by the owner
transferAllowed(owner, from, approved) == owner = from /\ (from = Market \/ approved)

createRequires(supported, startTime, endTime, reservePrice, minBidIncrement, time) ==
  /\ supported
  /\ startTime >= time
  /\ endTime > startTime
  /\ reservePrice > 0
  /\ minBidIncrement > 0

\* IERC20.transfer(to, amount) called by the marketplace: it reverts when
\* the marketplace holds less than amount
pay(balances, token, amount) == [balances EXCEPT ![token] = @ - amount]

canPay(balances, token, amount) == balances[token] >= amount

\* addSupportedToken, called by the owner of the marketplace
AddSupportedToken ==
  /\ \E token \in Tokens :
       /\ token \notin supportedTokens
       /\ supportedTokens' = supportedTokens \cup {token}
  /\ UNCHANGED <<auctions, auctionBids, escrowBalances, nftOwner, timestamp, events,
                 holdings>>
  /\ UNCHANGED <<cmp, hc, dd, phash, uploadVars, fq, ipfs, payVars, nftVars>>

newAuction(auctionId, sender, paymentToken, startTime, endTime, reservePrice, minBidIncrement) ==
  [auctionId |-> auctionId, seller |-> sender, paymentToken |-> paymentToken,
   startTime |-> startTime,
   endTime |-> endTime, reservePrice |-> reservePrice,
   minBidIncrement |-> minBidIncrement, currentBid |-> 0,
   currentBidder |-> ZeroAddress, settled |-> FALSE, cancelled |-> FALSE]

CreateAuction ==
  /\ Len(auctions) < MaxAuctions
  /\ \E sender \in Users, paymentToken \in Tokens, approved \in BOOLEAN,
        startTime \in {t \in (timestamp - 1)..(timestamp + 1) : t >= 0},
        period \in {0, 1}, reservePrice \in BidAmounts, minBidIncrement \in {0, 1} :
       /\ createRequires(paymentToken \in supportedTokens, startTime, startTime + period, reservePrice,
                         minBidIncrement, timestamp)
       /\ transferAllowed(nftOwner, sender, approved)
       /\ nftOwner' = Market
       /\ auctions' = Append(auctions,
                             newAuction(Len(auctions) + 1, sender, paymentToken,
                                        startTime,
                                        startTime + period, reservePrice,
                                        minBidIncrement))
       /\ auctionBids' = Append(auctionBids, <<>>)
       /\ Emit("AuctionCreated", Len(auctions) + 1, sender, 0)
  /\ UNCHANGED <<escrowBalances, timestamp, supportedTokens, holdings>>
  /\ UNCHANGED <<cmp, hc, dd, phash, uploadVars, fq, ipfs, payVars, nftVars>>

bidRequires(auction, bidAmount, sender, time) ==
  /\ auction.seller # ZeroAddress
  /\ ~auction.settled
  /\ ~auction.cancelled
  /\ time >= auction.startTime
  /\ time <= auction.endTime
  /\ bidAmount >= auction.reservePrice
  /\ bidAmount >= auction.currentBid + auction.minBidIncrement
  /\ sender # auction.seller

\* lines 145-148: the previous bidder is refunded into escrow
refund(balances, auction) ==
  IF auction.currentBidder # ZeroAddress
  THEN [balances EXCEPT ![auction.currentBidder] = @ + auction.currentBid]
  ELSE balances

PlaceBid ==
  /\ \E auctionId \in 1..(MaxAuctions + 1), sender \in Users, bidAmount \in BidAmounts,
        funded \in BOOLEAN :
       /\ bidRequires(auctionAt(auctions, auctionId), bidAmount, sender, timestamp)
       /\ funded
       /\ holdings' = pay(holdings, auctions[auctionId].paymentToken, 0 - bidAmount)
       /\ escrowBalances' = refund(escrowBalances, auctions[auctionId])
       /\ auctions' = [auctions EXCEPT ![auctionId].currentBid = bidAmount,
                                       ![auctionId].currentBidder = sender]
       /\ auctionBids' = [auctionBids EXCEPT ![auctionId] =
                            Append(@, [bidder |-> sender, amount |-> bidAmount,
                                       timestamp |-> timestamp])]
       /\ Emit("BidPlaced", auctionId, sender, bidAmount)
  /\ UNCHANGED <<nftOwner, timestamp, supportedTokens>>
  /\ UNCHANGED <<cmp, hc, dd, phash, uploadVars, fq, ipfs, payVars, nftVars>>

\* mutant: an auction can be settled before its end
settleRequiresAnyTime(auction, time) ==
  /\ auction.seller # ZeroAddress
  /\ ~auction.settled
  /\ ~auction.cancelled
  /\ auction.currentBid >= auction.reservePrice

settleRequires(auction, time) ==
  /\ auction.seller # ZeroAddress
  /\ ~auction.settled
  /\ ~auction.cancelled
  /\ time > auction.endTime
  /\ auction.currentBid >= auction.reservePrice

\* lines 178-188: what is left for the seller; a negative value is the
\* underflow that reverts the call
sellerAmount(totalAmount, royaltyAmount) ==
  totalAmount - ((totalAmount * MarketplaceFee) \div BasisPoints) - royaltyAmount

SettleAuction ==
  /\ \E auctionId \in 1..(MaxAuctions + 1), royaltyAmount \in Royalties :
       /\ settleRequires(auctionAt(auctions, auctionId), timestamp)
       /\ sellerAmount(auctions[auctionId].currentBid, royaltyAmount) >= 0
       /\ transferAllowed(nftOwner, Market, FALSE)
       /\ canPay(holdings, auctions[auctionId].paymentToken,
                 auctions[auctionId].currentBid)
       /\ holdings' = pay(holdings, auctions[auctionId].paymentToken,
                          auctions[auctionId].currentBid)
       /\ auctions' = [auctions EXCEPT ![auctionId].settled = TRUE]
       /\ nftOwner' = auctions[auctionId].currentBidder
       /\ Emit("AuctionSettled", auctionId, auctions[auctionId].currentBidder,
               auctions[auctionId].currentBid)
  /\ UNCHANGED <<auctionBids, escrowBalances, timestamp, supportedTokens>>
  /\ UNCHANGED <<cmp, hc, dd, phash, uploadVars, fq, ipfs, payVars, nftVars>>

\* mutant: an auction with bids can be cancelled
cancelRequiresWithBids(auction, sender) ==
  /\ auction.seller = sender
  /\ ~auction.settled
  /\ ~auction.cancelled

cancelRequires(auction, sender) ==
  /\ auction.seller = sender
  /\ ~auction.settled
  /\ ~auction.cancelled
  /\ auction.currentBid = 0

CancelAuction ==
  /\ \E auctionId \in 1..(MaxAuctions + 1), sender \in Users :
       /\ cancelRequires(auctionAt(auctions, auctionId), sender)
       /\ transferAllowed(nftOwner, Market, FALSE)
       /\ auctions' = [auctions EXCEPT ![auctionId].cancelled = TRUE]
       /\ nftOwner' = auctions[auctionId].seller
       /\ Emit("AuctionCancelled", auctionId, sender, 0)
  /\ UNCHANGED <<auctionBids, escrowBalances, timestamp, supportedTokens, holdings>>
  /\ UNCHANGED <<cmp, hc, dd, phash, uploadVars, fq, ipfs, payVars, nftVars>>

\* lines 306-312: the balance is paid in defaultPaymentToken
WithdrawEscrow ==
  /\ \E sender \in Users :
       /\ escrowBalances[sender] > 0
       /\ canPay(holdings, DefaultPaymentToken, escrowBalances[sender])
       /\ holdings' = pay(holdings, DefaultPaymentToken, escrowBalances[sender])
       /\ escrowBalances' = [escrowBalances EXCEPT ![sender] = 0]
  /\ UNCHANGED <<auctions, auctionBids, nftOwner, timestamp, events, supportedTokens>>
  /\ UNCHANGED <<cmp, hc, dd, phash, uploadVars, fq, ipfs, payVars, nftVars>>

\* a later block
Mine ==
  /\ timestamp < MaxClock
  /\ timestamp' = timestamp + 1
  /\ UNCHANGED <<auctions, auctionBids, escrowBalances, nftOwner, events,
                 supportedTokens, holdings>>
  /\ UNCHANGED <<cmp, hc, dd, phash, uploadVars, fq, ipfs, payVars, nftVars>>

\* the marketplace after its constructor; the seller owns the token
InitMarket ==
  /\ auctions = <<>>
  /\ auctionBids = <<>>
  /\ escrowBalances = [u \in Users |-> 0]
  /\ nftOwner = "seller"
  /\ timestamp = 0
  /\ events = EmptyBag
  /\ supportedTokens = {DefaultPaymentToken}
  /\ holdings = [token \in Tokens |-> 0]
  /\ cmp = NoCall
  /\ hc = NoCall
  /\ dd = NoCall
  /\ phash = FALSE
  /\ fq = NoCall
  /\ ipfs = NoCall
  /\ NoUploads
  /\ NoPayments
  /\ NoNFT

NextMarket ==
  \/ AddSupportedToken
  \/ CreateAuction
  \/ PlaceBid
  \/ SettleAuction
  \/ CancelAuction
  \/ WithdrawEscrow
  \/ Mine

SpecMarket == InitMarket /\ [][NextMarket]_vars

(***************************************************************************)
(* AuthenziaNFT.sol: mintNFT, lazyMint and updateContentHash.  A call that *)
(* reverts leaves the state as it was.  keccak256 of a voucher is modelled *)
(* by the encoded fields themselves.                                       *)
(***************************************************************************)
\* content hashes given to the contract, the empty string among them
ContentHashes == {"", "a", "b"}

TokenIds == 0..MaxTokenId

\* royaltyBps of a call: the largest accepted one and the next
RoyaltyBps == {1000, 1001}

MaxRoyaltyBps == 1000

\* the signers of a voucher
Minter == "minter"

Signers == {Minter, "alice"}

\* ERC721._exists
exists(owners, tokenId) == tokenId \in DOMAIN owners /\ owners[tokenId] # ZeroAddress

ExistingTokens(owners) == {tokenId \in DOMAIN owners : exists(owners, tokenId)}

\* ERC721._safeMint: it reverts for address(0) and for a token id that
\* exists
canMint(owners, to, tokenId) ==
  to # ZeroAddress /\ tokenId \in DOMAIN owners /\ ~exists(owners, tokenId)

mintRequires(used, contentHash, royaltyBps) ==
  contentHash \notin used /\ royaltyBps <= MaxRoyaltyBps

\* lines 80-81 and 115-116
setContentHash(tokenId, contentHash) ==
  /\ contentHashes' = [contentHashes EXCEPT ![tokenId] = contentHash]
  /\ usedHashes' = usedHashes \cup {contentHash}

MintNFT ==
  /\ \E to \in {"alice", ZeroAddress}, contentHash \in ContentHashes,
        royaltyBps \in RoyaltyBps :
       /\ mintRequires(usedHashes, contentHash, royaltyBps)
       /\ canMint(tokenOwners, to, tokenIdCounter)
       /\ tokenIdCounter' = tokenIdCounter + 1
       /\ tokenOwners' = [tokenOwners EXCEPT ![tokenIdCounter] = to]
       /\ setContentHash(tokenIdCounter, contentHash)
  /\ UNCHANGED usedVouchers
  /\ UNCHANGED <<cmp, hc, dd, phash, uploadVars, fq, ipfs, payVars, mktVars>>

\* keccak256(abi.encode(tokenId, to, tokenURI, contentHash))
voucherHash(tokenId, to, contentHash) == <<tokenId, to, contentHash>>

LazyMint ==
  /\ \E tokenId \in TokenIds, to \in {"alice", ZeroAddress},
        contentHash \in ContentHashes, royaltyBps \in RoyaltyBps, signer \in Signers :
       /\ voucherHash(tokenId, to, contentHash) \notin usedVouchers
       /\ signer = Minter
       /\ mintRequires(usedHashes, contentHash, royaltyBps)
       /\ canMint(tokenOwners, to, tokenId)
       /\ usedVouchers' = usedVouchers \cup {voucherHash(tokenId, to, contentHash)}
       /\ tokenOwners' = [tokenOwners EXCEPT ![tokenId] = to]
       /\ setContentHash(tokenId, contentHash)
  /\ UNCHANGED tokenIdCounter
  /\ UNCHANGED <<cmp, hc, dd, phash, uploadVars, fq, ipfs, payVars, mktVars>>

\* lines 168-172: the old hash is released unless it is the empty string
releaseHash(used, oldHash) == IF Len(oldHash) > 0 THEN used \ {oldHash} ELSE used

UpdateContentHash ==
  /\ \E tokenId \in TokenIds, newContentHash \in ContentHashes :
       /\ exists(tokenOwners, tokenId)
       /\ newContentHash \notin usedHashes
       /\ contentHashes' = [contentHashes EXCEPT ![tokenId] = newContentHash]
       /\ usedHashes' = releaseHash(usedHashes, contentHashes[tokenId])
                          \cup {newContentHash}
  /\ UNCHANGED <<tokenIdCounter, tokenOwners, usedVouchers>>
  /\ UNCHANGED <<cmp, hc, dd, phash, uploadVars, fq, ipfs, payVars, mktVars>>

getNextTokenId == tokenIdCounter

totalSupply == tokenIdCounter - 1

\* the contract after its constructor: the counter starts from 1
InitNFT ==
  /\ tokenIdCounter = 1
  /\ tokenOwners = [tokenId \in TokenIds |-> ZeroAddress]
  /\ contentHashes = [tokenId \in TokenIds |-> ""]
  /\ usedHashes = {}
  /\ usedVouchers = {}
  /\ cmp = NoCall
  /\ hc = NoCall
  /\ dd = NoCall
  /\ phash = FALSE
  /\ fq = NoCall
  /\ ipfs = NoCall
  /\ NoUploads
  /\ NoPayments
  /\ NoMarket

NextNFT == MintNFT \/ LazyMint \/ UpdateContentHash

SpecNFT == InitNFT /\ [][NextNFT]_vars

(***************************************************************************)
(* IPFSService.uploadFile (part_008).  ipfs is                             *)
(*   [phase, configured, bytes, at, calls, errors, result]                 *)
(* configured are the backends whose client the constructor has created,   *)
(* at is the backend uploadFile is awaiting, calls are the backends called *)
(* so far with what became of the call, result is what uploadFile gave the *)
(* caller.  A backend is a position of Providers.                          *)
(***************************************************************************)
Providers == <<"web3.storage", "pinata", "ipfs-http-client">>

Backends == DOMAIN Providers

\* what the library call of a backend does: it resolves, it rejects with
\* an Error, or it rejects with a value that has no message (null)
Outcomes == {"resolves", "rejects", "rejectsNull"}

\* the value null that uploadFile returns
NullData == [isNull |-> TRUE]

\* uploadToWeb3Storage, uploadToPinata, uploadToIPFS: the client must exist;
\* a rejection of the library is thrown again as an Error with a message,
\* and so is the TypeError of reading error.message of null
uploadTo(backend, configured, bytes, outcome) ==
  IF backend \notin configured THEN Throw
  ELSE IF outcome = "resolves"
  THEN Return([isNull |-> FALSE, provider |-> Providers[backend],
               hash |-> generateSHA256Hash(Buffer(bytes)).val, size |-> bytes])
  ELSE Throw

\* the first configured backend after backend k in the order of the if
\* statements of uploadFile, 0 when there is none
nextConfigured(configured, k) ==
  IF \E i \in configured : i > k
  THEN CHOOSE i \in configured : i > k /\ \A j \in configured : j > k => i <= j
  ELSE 0

\* mutant: the rejection of a backend is not caught
afterFailureRethrown(call, outcome) ==
  [call EXCEPT !.phase = "done", !.at = 0, !.result = Throw,
               !.calls = Append(@, [backend |-> call.at, outcome |-> outcome])]

\* the catch block of a backend and what follows it: the error is logged and
\* collected, the next configured backend is tried, and null is returned
\* after the last one
afterFailure(call, outcome) ==
  LET failed == [call EXCEPT !.calls = Append(@, [backend |-> call.at, outcome |-> outcome]),
                             !.errors = Append(@, Providers[call.at])]
  IN  IF nextConfigured(call.configured, call.at) = 0
      THEN [failed EXCEPT !.phase = "done", !.at = 0, !.result = Return(NullData)]
      ELSE [failed EXCEPT !.at = nextConfigured(call.configured, call.at)]

\* return await this.uploadTo...(buffer, filename, metadata)
afterCall(call, outcome, uploaded) ==
  IF uploaded.ok
  THEN [call EXCEPT !.phase = "done", !.at = 0, !.result = uploaded,
                    !.calls = Append(@, [backend |-> call.at, outcome |-> outcome])]
  ELSE afterFailure(call, outcome)

\* lines 186-193: a call of uploadFile, up to its first await
uploadFile(configured, bytes) ==
  IF configured = {}
  THEN [phase |-> "done", configured |-> configured, bytes |-> bytes, at |-> 0,
        calls |-> <<>>, errors |-> <<>>, result |-> Return(NullData)]
  ELSE [phase |-> "call", configured |-> configured, bytes |-> bytes,
        at |-> nextConfigured(configured, 0),
        calls |-> <<>>, errors |-> <<>>, result |-> Return(NullData)]

UploadFileBegin ==
  /\ ipfs.phase \in {"ready", "done"}
  /\ \E bytes \in 0..MaxBytes : ipfs' = uploadFile(ipfs.configured, bytes)
  /\ UNCHANGED <<cmp, hc, dd, phash, uploadVars, fq, payVars, mktVars, nftVars>>

\* the awaited call of backend ipfs.at returns or throws
UploadFileTry ==
  /\ ipfs.phase = "call"
  /\ \E outcome \in Outcomes :
       ipfs' = afterCall(ipfs, outcome,
                         uploadTo(ipfs.at, ipfs.configured, ipfs.bytes, outcome))
  /\ UNCHANGED <<cmp, hc, dd, phash, uploadVars, fq, payVars, mktVars, nftVars>>

\* the service as its constructor leaves it: any set of backends
InitIPFS ==
  /\ ipfs \in [phase : {"ready"}, configured : SUBSET Backends]
  /\ fq = NoCall
  /\ cmp = NoCall
  /\ hc = NoCall
  /\ dd = NoCall
  /\ phash = FALSE
  /\ NoUploads
  /\ NoPayments
  /\ NoMarket
  /\ NoNFT

NextIPFS ==
  \/ UploadFileBegin
  \/ UploadFileTry

SpecIPFS == InitIPFS /\ [][NextIPFS]_vars

(***************************************************************************)
(* Properties of the payment routes.                                       *)
(***************************************************************************)
DownloadAnswered == resp # NoCall /\ resp.route = "download"

\* the payment of a download request entitles the request to the file
MayDownload(r) ==
  /\ r.payment.found
  /\ r.payment.paymentStatus = "completed"
  /\ r.payment.accessGranted
  /\ r.payment.accessExpiresAt = NoDate \/ r.at <= r.payment.accessExpiresAt
  /\ r.email = r.payment.deliveryEmail

\* C18: GET /payments/:paymentId/download serves the original file only
\* when the payment exists, is completed, has access granted, has not
\* expired and was delivered to the email of the request; every other
\* request is answered with an error and leaves the asset's download
\* counter as it was.
C18_DownloadGuarded ==
  DownloadAnswered =>
    /\ resp.served => MayDownload(resp)
    /\ ~MayDownload(resp) => resp.status >= 400 /\ resp.after = resp.before

\* a file was served some time after access had been granted
C18_Witness == DownloadAnswered /\ resp.served /\ resp.at > 0

\* a request with everything but the right email was refused
C18_WrongEmailRefused ==
  /\ DownloadAnswered
  /\ resp.status = 403
  /\ resp.error = "mismatch"
  /\ resp.before = 1
  /\ resp.after = 1

CreateAnswered == resp # NoCall /\ resp.route = "create"

\* C19: POST /payments/create stores a payment only if the asset exists,
\* is public with status 'published' or 'active' and the requested amount
\* is within 0.01 of the asset price; the stored amount is the asset price
\* and the payment starts 'pending'; a request answered 400 or 404 creates
\* no record.
C19_CreateGuarded ==
  CreateAnswered =>
    /\ resp.payment.found =>
         /\ resp.assetId = 1
         /\ item.isPublic
         /\ item.status \in {"published", "active"}
         /\ Abs(resp.amount - resp.price) <= PriceTolerance
         /\ resp.payment.amount = resp.price
         /\ resp.payment.paymentStatus = "pending"
         /\ Len(payments) = resp.before + 1
         /\ payments[resp.before + 1].amount = resp.price
         /\ payments[resp.before + 1].deliveryEmail = resp.payment.deliveryEmail
    /\ ~resp.payment.found => Len(payments) = resp.before
    /\ resp.status \in {400, 404} => ~resp.payment.found

\* a payment was stored for a request that was 0.01 off the asset price
C19_Witness ==
  /\ CreateAnswered
  /\ resp.status = 201
  /\ resp.amount = resp.price + PriceTolerance
  /\ resp.price > 0
  /\ payments[Len(payments)] = resp.payment

\* a request 0.011 off the price was answered 400 with a payment on record
\* from before
C19_MismatchRejected ==
  /\ CreateAnswered
  /\ resp.status = 400
  /\ resp.error = "mismatch"
  /\ resp.before = 1

(***************************************************************************)
(* Properties of the marketplace contract.                                 *)
(***************************************************************************)
\* the AuctionSettled events of an auction
Settlements(log, auctionId) ==
  LET settled == {e \in BagToSet(log) : e.name = "AuctionSettled" /\ e.auctionId = auctionId}
  IN  BagCardinality([e \in settled |-> CopiesIn(e, log)])

\* the largest amount among the recorded bids, 0 when there is none
HighestBid(bids) ==
  LET amounts == {0} \cup {bids[i].amount : i \in 1..Len(bids)}
  IN  CHOOSE m \in amounts : \A n \in amounts : m >= n

\* what a step does to auction auctionId
C20_AuctionStep(auctionId) ==
  LET before == auctionAt(auctions, auctionId)
      after == auctions'[auctionId]
      settles == Settlements(events', auctionId) > Settlements(events, auctionId)
  IN  /\ ~(after.settled /\ after.cancelled)
      /\ Settlements(events', auctionId) <= 1
      /\ before.settled => after.settled /\ ~settles
      /\ before.cancelled => after.cancelled /\ ~settles
      /\ after.settled /\ ~before.settled => settles
      /\ settles =>
           /\ after.settled
           /\ timestamp > before.endTime
           /\ before.currentBid >= before.reservePrice
           /\ before.currentBid = HighestBid(auctionBids[auctionId])
           /\ before.currentBidder # ZeroAddress
           /\ nftOwner = Market
           /\ nftOwner' = before.currentBidder

\* C20: an auction is settled at most once, only strictly after its
\* endTime, only with a current bid of at least the reserve price and never
\* after it was cancelled; no auction is both settled and cancelled; the
\* settlement hands the NFT to the current, highest bidder.
C20_SettlementGuarded ==
  [][\A auctionId \in 1..Len(auctions') : C20_AuctionStep(auctionId)]_vars

\* an auction with two bids was settled and the NFT is with the second
\* bidder
C20_Witness ==
  \E auctionId \in 1..Len(auctions) :
    /\ auctions[auctionId].settled
    /\ Len(auctionBids[auctionId]) = 2
    /\ auctionBids[auctionId][1].bidder # auctionBids[auctionId][2].bidder
    /\ nftOwner = auctionBids[auctionId][2].bidder
    /\ Settlements(events, auctionId) = 1

\* the AuctionCancelled events of an auction, each with its caller
Cancellations(log, auctionId) ==
  {e \in BagToSet(log) : e.name = "AuctionCancelled" /\ e.auctionId = auctionId}

\* what a step does to auction auctionId when it cancels it
C21_AuctionStep(auctionId) ==
  LET before == auctionAt(auctions, auctionId)
      after == auctions'[auctionId]
      cancels == after.cancelled /\ ~before.cancelled
  IN  /\ Len(auctionBids'[auctionId]) > 0 => ~after.cancelled
      /\ Cancellations(events', auctionId) # Cancellations(events, auctionId) => cancels
      /\ cancels =>
           /\ ~before.settled
           /\ before.currentBid = 0
           /\ Len(auctionBids[auctionId]) = 0
           /\ Cancellations(events', auctionId) =
                [name : {"AuctionCancelled"}, auctionId : {auctionId},
                 who : {before.seller}, amount : {0}]
           /\ nftOwner = Market
           /\ nftOwner' = before.seller

\* C21: cancelAuction succeeds only for the seller of an auction that is
\* neither settled nor cancelled and has no bid; an auction that has a bid
\* is never cancelled; a cancel returns the escrowed NFT to the seller.
C21_CancelGuarded ==
  [][\A auctionId \in 1..Len(auctions') : C21_AuctionStep(auctionId)]_vars

\* the second auction of the token was cancelled by its seller, who won
\* the token in the first
C21_Witness ==
  /\ Len(auctions) = 2
  /\ auctions[1].settled
  /\ auctions[2].cancelled
  /\ auctions[2].seller = auctions[1].currentBidder
  /\ nftOwner = auctions[2].seller

\* the sum of the current bids of the auctions in a token that are not
\* settled
RECURSIVE BidsHeld(_, _, _)
BidsHeld(map, token, n) ==
  IF n = 0 THEN 0
  ELSE BidsHeld(map, token, n - 1)
       + (IF map[n].paymentToken = token /\ ~map[n].settled
          THEN map[n].currentBid ELSE 0)

\* C24 (as claimed): the marketplace's holdings of every token cover the
\* current bids of the unsettled auctions in that token (and the escrow
\* credits owed in it, which are never negative).
C24_HoldingsCoverBids ==
  \A token \in Tokens : holdings[token] >= BidsHeld(auctions, token, Len(auctions))

\* what the contract does keep: its holdings over all tokens together
\* cover all current bids and all escrow credits
C24_TotalCovered ==
  holdings["usdc"] + holdings["dai"] >=
    BidsHeld(auctions, "usdc", Len(auctions)) + BidsHeld(auctions, "dai", Len(auctions))
    + escrowBalances["seller"] + escrowBalances["alice"] + escrowBalances["bob"]

(***************************************************************************)
(* Properties of the NFT contract.                                         *)
(***************************************************************************)
HashesOfTokens == {contentHashes[tokenId] : tokenId \in ExistingTokens(tokenOwners)}

\* C22 (as claimed): no two existing tokens have the same content hash,
\* and usedHashes[h] is true exactly when an existing token has content
\* hash h.
C22_UsedHashesExact ==
  /\ \A t1, t2 \in ExistingTokens(tokenOwners) :
       contentHashes[t1] = contentHashes[t2] => t1 = t2
  /\ usedHashes = HashesOfTokens

\* what does hold: content hashes are unique, every hash of a token is
\* marked used, and the only hash marked used without a token is the empty
\* string
C22_UsedHashesButEmpty ==
  /\ \A t1, t2 \in ExistingTokens(tokenOwners) :
       contentHashes[t1] = contentHashes[t2] => t1 = t2
  /\ HashesOfTokens \subseteq usedHashes
  /\ usedHashes \ HashesOfTokens \subseteq {""}

\* C23 (as claimed): totalSupply() is the number of minted tokens and
\* getNextTokenId() is the id of no existing token.
C23_CounterMatchesTokens ==
  /\ totalSupply = Cardinality(ExistingTokens(tokenOwners))
  /\ ~exists(tokenOwners, getNextTokenId)

\* what does hold: the tokens minted by mintNFT are the ids below the
\* counter that were free when it reached them
C23_CounterOnly == tokenIdCounter >= 1 /\ totalSupply <= Cardinality(ExistingTokens(tokenOwners))

(***************************************************************************)
(* Properties of POST /:paymentId/process.                                 *)
(***************************************************************************)
\* C26 (as claimed): whatever the interleaving of the process requests for
\* one payment, the payment is processed once: the seller is credited with
\* one sale and with creatorAmount, and once the file is marked sent and
\* no request is in flight exactly that was credited.
C26_ProcessedOnce ==
  /\ seller.totalSales <= 1
  /\ seller.totalEarnings <= payments[1].creatorAmount
  /\ (payments[1].originalFileSent /\ \A c \in Clients : procs[c] = IdleProc)
       => /\ seller.totalSales = 1
          /\ seller.totalEarnings = payments[1].creatorAmount

\* what does hold: a request credits the seller at most once, so the sales
\* counted for the payment never exceed the number of requests that passed
\* the pending check
C26_OncePerRequest ==
  /\ seller.totalSales <= MaxClients
  /\ seller.totalEarnings = seller.totalSales * payments[1].creatorAmount

C27_PaymentState(payment) ==
  /\ payment.accessGranted =>
       /\ payment.paymentStatus = "completed"
       /\ payment.transactionId # 0
       /\ payment.paidAt # NoDate
  /\ payment.originalFileSent => payment.accessGranted

C27_PaymentStep(id) ==
  payments[id].paymentStatus = "completed" => payments'[id].paymentStatus = "completed"

\* C27: a payment with accessGranted has paymentStatus 'completed' with
\* transactionId and paidAt set, a payment with originalFileSent has
\* accessGranted, and no step takes paymentStatus from 'completed' back to
\* 'pending'.
C27_PaymentInvariants ==
  /\ [](\A id \in DOMAIN payments : C27_PaymentState(payments[id]))
  /\ [][\A id \in DOMAIN payments : C27_PaymentStep(id)]_vars

\* two requests passed the pending check; the second one completed the
\* payment again and the first one marked the file sent
C27_Witness ==
  /\ payments[1].originalFileSent
  /\ payments[1].accessGranted
  /\ payments[1].transactionId = 2
  /\ seller.totalSales = 2

(***************************************************************************)
(* Properties of concurrent uploads.                                       *)
(***************************************************************************)
\* C25 (as claimed): after any interleaving of upload requests no two
\* stored assets of different creators have the same originalFile.hash.
C25_NoSharedHash ==
  \A i, j \in 1..Len(assets) :
    assets[i].creator # assets[j].creator => assets[i].hash # assets[j].hash

\* what does hold: an upload is not saved when an asset of another creator
\* with the same bytes was among the first DetectLimit candidates at the
\* time of its own check, so with fewer than DetectLimit assets two stored
\* assets with one hash belong to requests that were in flight together
C25_SequentialOnly ==
  \A r \in 1..MaxRequests :
    reqs[r].pc = "save" =>
      \A k \in 1..Len(reqs[r].pool2) :
        LET asset == assets[reqs[r].pool2[k]]
        IN  asset.hash # generateSHA256Hash(Buffer(reqs[r].bytes)).val

\* an image upload that was answered with a rejection: a duplicate (400 or
\* 409), inappropriate content, or a processing error
RejectedImage(req) ==
  /\ req.pc = "done"
  /\ req.isImage
  /\ req.reason \in {"duplicate", "inappropriate", "processing"}

\* C28 (as claimed): a rejected image upload leaves none of the files that
\* were written for it; the handler removes no file, so the files a request
\* has written are the files that remain.
C28_RejectedLeavesNothing == RejectedImage(last) => last.files = {}

\* what does hold: the step that answers a request with anything but 201
\* leaves the collection of assets as it was
C28_NoRecord ==
  [][(last' # last /\ last'.status # 201) => assets' = assets]_vars

(***************************************************************************)
(* Properties of IPFSService.uploadFile.                                   *)
(***************************************************************************)
CalledBackends(call) == {call.calls[i].backend : i \in 1..Len(call.calls)}

\* the calls made so far: configured backends in the order of Providers,
\* none skipped but unconfigured ones, each after the failure of the one
\* before
C29_CallsInOrder(call) ==
  /\ \A i \in 1..Len(call.calls) :
       /\ call.calls[i].backend \in call.configured
       /\ \A b \in call.configured :
            b < call.calls[i].backend => \E j \in 1..(i - 1) : call.calls[j].backend = b
       /\ i < Len(call.calls) =>
            /\ call.calls[i].backend < call.calls[i + 1].backend
            /\ call.calls[i].outcome # "resolves"

\* what a finished call gave: never an exception; the data of the backend
\* whose call resolved, which is the last one called; null exactly when no
\* backend is configured or every configured backend was called and failed
C29_FirstSuccess(call) ==
  /\ call.result.ok
  /\ ~call.result.val.isNull =>
       /\ call.calls # <<>>
       /\ call.calls[Len(call.calls)].outcome = "resolves"
       /\ call.result.val.provider = Providers[call.calls[Len(call.calls)].backend]
  /\ call.result.val.isNull =>
       /\ CalledBackends(call) = call.configured
       /\ \A i \in 1..Len(call.calls) : call.calls[i].outcome # "resolves"

\* C29: uploadFile tries the configured backends in the order Web3.Storage,
\* Pinata, IPFS HTTP client, skips the ones that are not configured, calls
\* a later one only after every earlier configured one has failed, returns
\* the result of the first success, never throws, and returns null when no
\* backend is configured or all of them fail.
C29_FallbackOrder ==
  /\ ipfs.phase \in {"call", "done"} => C29_CallsInOrder(ipfs)
  /\ ipfs.phase = "done" => C29_FirstSuccess(ipfs)

\* Web3.Storage is not configured, Pinata failed, the IPFS HTTP client
\* succeeded
C29_Witness ==
  /\ ipfs.phase = "done"
  /\ ipfs.configured = {2, 3}
  /\ Len(ipfs.calls) = 2
  /\ ipfs.calls[1] = [backend |-> 2, outcome |-> "rejectsNull"]
  /\ ipfs.result.ok
  /\ ~ipfs.result.val.isNull
  /\ ipfs.result.val.provider = "ipfs-http-client"

\* all three backends are configured and all of them fail: null
C29_AllFailed ==
  /\ ipfs.phase = "done"
  /\ ipfs.configured = Backends
  /\ Len(ipfs.calls) = 3
  /\ ipfs.result = Return(NullData)

=============================================================================
